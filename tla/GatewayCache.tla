---------------------------- MODULE GatewayCache ----------------------------
(***************************************************************************)
(* The file of verified MASQUE gateways (main.rs): who reads it, who adds  *)
(* to it, and what is on the disk in between.                              *)
(*                                                                         *)
(* A session of run_mim without an edge chooses one in select_peer, which  *)
(* adds it to the file and may start a top-up, a task of the session that  *)
(* scans in the background and adds what it finds.  The tasks run on       *)
(* several threads.  An update is read, extend, write a temporary file,    *)
(* rename; nothing excludes two of them, and all of them use the same      *)
(* temporary name.  A dropped session takes its tasks with it at their     *)
(* next await, of which an update has none; the death of the process stops *)
(* them anywhere.                                                          *)
(*                                                                         *)
(* A forced endpoint skips all of this and is left out.                    *)
(***************************************************************************)
EXTENDS Naturals, Sequences

CONSTANTS Gateways,    (* the addresses that may be verified                 *)
          Wanted,      (* those of the address families options.ip_scan wants *)
          MaxRtt,      (* bound: round-trip times are 1..MaxRtt              *)
          Session,     (* the task that runs the session                     *)
          TopUps,      (* bound: the top-ups there may be at one time        *)
          MAX_CACHED_MASQUE_GATEWAYS,
          MASQUE_CACHE_WARM_ENOUGH

ASSUME CacheAssumption ==
  /\ Wanted \subseteq Gateways
  /\ Session \notin TopUps
  /\ {MaxRtt, MAX_CACHED_MASQUE_GATEWAYS, MASQUE_CACHE_WARM_ENOUGH} \subseteq Nat

Tasks == {Session} \cup TopUps

VARIABLES
  cache,      (* the file: absent, blank, torn or a whole list               *)
  temporary,  (* the file named <path>.tmp, likewise                         *)
  fd,         (* where the file a task is writing is to be found now         *)
  pc,         (* where each task is                                          *)
  doc,        (* the list each task is about to write                        *)
  reuse,      (* options.endpoint_discovery is Cache                         *)
  cached,     (* the gateways select_peer has read and is verifying          *)
  alone,      (* history: the updates nobody else was updating beside        *)
  overlap     (* history: updates overlapped, and no lone one finished since *)

disk == <<cache, temporary, fd>>
cacheVars == <<disk, pc, doc, reuse, cached, alone, overlap>>

Entries == [gateway : Gateways, rtt : 1..MaxRtt]

(* sort_by_key keeps the fastest first, retain one entry per gateway.      *)
Lists ==
  {s \in UNION {[1..n -> Entries] : n \in 0..MAX_CACHED_MASQUE_GATEWAYS} :
     \A i, j \in DOMAIN s :
       i < j => s[i].rtt <= s[j].rtt /\ s[i].gateway # s[j].gateway}

File(state, list) == [state |-> state, list |-> list]
Absent == File("absent", <<>>)
Blank == File("blank", <<>>)
Torn == File("torn", <<>>)
Whole(list) == File("whole", list)

(* A file that cannot be read or parsed counts as an empty list.           *)
Read == cache.list

cached_masque_gateways ==
  {Read[i].gateway : i \in DOMAIN Read} \cap Wanted

masque_cache_needs_refresh ==
  LET IsWanted(e) == e.gateway \in Wanted
  IN  Len(SelectSeq(Read, IsWanted)) < MASQUE_CACHE_WARM_ENOUGH

(* retain, push, sort_by_key and truncate: the new entry goes behind those *)
(* as fast as it is.                                                       *)
Extended(list, new) ==
  LET Ahead(e) == e.gateway # new.gateway /\ e.rtt <= new.rtt
      Behind(e) == e.gateway # new.gateway /\ e.rtt > new.rtt
      all == SelectSeq(list, Ahead) \o <<new>> \o SelectSeq(list, Behind)
  IN  IF Len(all) > MAX_CACHED_MASQUE_GATEWAYS
        THEN SubSeq(all, 1, MAX_CACHED_MASQUE_GATEWAYS)
        ELSE all

Updating == {w \in Tasks : pc[w] \in {"create", "write", "rename"}}

CacheInit ==
  /\ cache \in {Absent} \cup {Whole(s) : s \in Lists}
  /\ temporary = Absent
  /\ fd = [w \in Tasks |-> "none"]
  /\ pc = [w \in Tasks |-> "off"]
  /\ doc = [w \in Tasks |-> <<>>]
  /\ reuse \in BOOLEAN
  /\ cached = {}
  /\ alone = {}
  /\ overlap = FALSE

Move(w, from, to) == pc[w] = from /\ pc' = [pc EXCEPT ![w] = to]

-----------------------------------------------------------------------------
(***************************************************************************)
(* cache_masque_gateway.                                                   *)
(***************************************************************************)

(* The file is read and extended.                                          *)
Update(w, from, gateway) ==
  /\ Move(w, from, "create")
  /\ \E rtt \in 1..MaxRtt :
       doc' = [doc EXCEPT
                 ![w] = Extended(Read, [gateway |-> gateway, rtt |-> rtt])]
  /\ alone' = IF Updating = {} THEN {w} ELSE {}
  /\ overlap' = (overlap \/ Updating # {})

AfterUpdate(w) == IF w = Session THEN "cached" ELSE "off"

Leave(w) ==
  /\ pc' = [pc EXCEPT ![w] = AfterUpdate(w)]
  /\ doc' = [doc EXCEPT ![w] = <<>>]
  /\ alone' = alone \ {w}

(* Mutant: the cache is written where it is.                               *)
CreateInPlace(w) ==
  /\ cache' = Blank
  /\ fd' = [fd EXCEPT ![w] = "cache"]
  /\ Move(w, "create", "write")
  /\ UNCHANGED <<temporary, doc, reuse, cached, alone, overlap>>

(* fs::write creates the temporary file or truncates the one there is.     *)
Create(w) ==
  /\ Move(w, "create", "write")
  /\ temporary' = Blank
  /\ fd' = [fd EXCEPT ![w] = "temporary"]
  /\ UNCHANGED <<cache, doc, reuse, cached, alone, overlap>>

(* The directory or the file cannot be created.                            *)
CreateFails(w) ==
  /\ pc[w] = "create"
  /\ Leave(w)
  /\ UNCHANGED <<disk, reuse, cached, overlap>>

(* The document goes over what another task has written since: the end of  *)
(* a longer one stays behind it.                                           *)
Over(file, list) == IF file = Blank THEN {Whole(list)} ELSE {Whole(list), Torn}

Opened(w) == IF fd[w] = "cache" THEN cache ELSE temporary

(* fs::write writes to the file it opened, wherever that is now, and       *)
(* closes it.                                                              *)
WriteTo(w, content) ==
  /\ temporary' = IF fd[w] = "temporary" THEN content ELSE temporary
  /\ cache' = IF fd[w] = "cache" THEN content ELSE cache
  /\ fd' = [fd EXCEPT ![w] = "none"]

Write(w) ==
  /\ Move(w, "write", "rename")
  /\ \E content \in Over(Opened(w), doc[w]) : WriteTo(w, content)
  /\ UNCHANGED <<doc, reuse, cached, alone, overlap>>

(* The disk is full: no rename.                                            *)
WriteFails(w) ==
  /\ pc[w] = "write"
  /\ WriteTo(w, Torn)
  /\ Leave(w)
  /\ UNCHANGED <<reuse, cached, overlap>>

(* The temporary file becomes the cache, for those who are writing it too. *)
Rename(w) ==
  /\ pc[w] = "rename"
  /\ temporary # Absent
  /\ cache' = temporary
  /\ temporary' = Absent
  /\ fd' = [v \in Tasks |-> CASE fd[v] = "temporary" -> "cache"
                              [] fd[v] = "cache" -> "gone"
                              [] OTHER -> fd[v]]
  /\ Leave(w)
  /\ overlap' = (overlap /\ w \notin alone)
  /\ UNCHANGED <<reuse, cached>>

(* Somebody else has renamed it away, or the rename fails: ignored.        *)
RenameFails(w) ==
  /\ pc[w] = "rename"
  /\ Leave(w)
  /\ UNCHANGED <<disk, reuse, cached, overlap>>

UpdateStep(w) ==
  \/ Create(w) \/ CreateFails(w)
  \/ Write(w) \/ WriteFails(w)
  \/ Rename(w) \/ RenameFails(w)

-----------------------------------------------------------------------------
(***************************************************************************)
(* The session.                                                            *)
(***************************************************************************)

(* A session starts with the settings of the moment.                       *)
StartSession ==
  /\ Move(Session, "off", "dial")
  /\ reuse' \in BOOLEAN
  /\ UNCHANGED <<disk, doc, cached, alone, overlap>>

(* An edge is reused, of this session or of the last one.                  *)
DialAnswers ==
  /\ Move(Session, "dial", "up")
  /\ UNCHANGED <<disk, doc, reuse, cached, alone, overlap>>

(* There is none, or it failed twice: select_peer.  The file is read when  *)
(* endpoints are to be reused.                                             *)
SelectPeer ==
  /\ \E from \in {"dial", "choose"} :
       IF reuse /\ cached_masque_gateways # {}
         THEN Move(Session, from, "verify") /\ cached' = cached_masque_gateways
         ELSE Move(Session, from, "hunt") /\ UNCHANGED cached
  /\ UNCHANGED <<disk, doc, reuse, alone, overlap>>

(* verify_cached_gateways: the first that answers.                         *)
CachedAnswers ==
  /\ \E g \in cached : Update(Session, "verify", g)
  /\ cached' = {}
  /\ UNCHANGED <<disk, reuse>>

CachedSilent ==
  /\ Move(Session, "verify", "hunt")
  /\ cached' = {}
  /\ UNCHANGED <<disk, doc, reuse, alone, overlap>>

(* hunt_best_gateway, or the anycast gateways over HTTP/2 after it.        *)
HuntFinds ==
  /\ \E g \in Wanted : Update(Session, "hunt", g)
  /\ UNCHANGED <<disk, reuse, cached>>

(* Nothing found: run_mim chooses again.                                   *)
HuntFails ==
  /\ Move(Session, "hunt", "choose")
  /\ UNCHANGED <<disk, doc, reuse, cached, alone, overlap>>

(* spawn_masque_cache_refresh: at most one scan per reuse of a gateway,   *)
(* and none once the file is warm.                                         *)
SpawnRefresh ==
  /\ reuse
  /\ masque_cache_needs_refresh
  /\ \E w \in TopUps :
       /\ pc[Session] = "cached"
       /\ pc[w] = "off"
       /\ pc' = [pc EXCEPT ![Session] = "up", ![w] = "hunt"]
  /\ UNCHANGED <<disk, doc, reuse, cached, alone, overlap>>

SkipRefresh ==
  /\ ~reuse \/ ~masque_cache_needs_refresh
  /\ Move(Session, "cached", "up")
  /\ UNCHANGED <<disk, doc, reuse, cached, alone, overlap>>

(* The tunnel ends, and the loop goes on.                                  *)
TunnelEnds ==
  /\ Move(Session, "up", "dial")
  /\ UNCHANGED <<disk, doc, reuse, cached, alone, overlap>>

SessionStep ==
  \/ StartSession \/ DialAnswers \/ SelectPeer \/ CachedAnswers \/ CachedSilent
  \/ HuntFinds \/ HuntFails \/ SpawnRefresh \/ SkipRefresh \/ TunnelEnds

(***************************************************************************)
(* The top-ups, and the end of the tasks.                                  *)
(***************************************************************************)

TopUpFinds(w) ==
  /\ \E g \in Wanted : Update(w, "hunt", g)
  /\ UNCHANGED <<disk, reuse, cached>>

TopUpFails(w) ==
  /\ Move(w, "hunt", "off")
  /\ UNCHANGED <<disk, doc, reuse, cached, alone, overlap>>

Gone ==
  /\ pc' = [w \in Tasks |-> "off"]
  /\ doc' = [w \in Tasks |-> <<>>]
  /\ cached' = {}

(* The session is dropped with its runtime, which lets updates finish.     *)
SessionDropped ==
  /\ pc[Session] # "off"
  /\ Updating = {}
  /\ Gone
  /\ UNCHANGED <<disk, reuse, alone, overlap>>

(* The process dies: what is on the disk stays.                            *)
ProcessDies ==
  /\ pc[Session] # "off"
  /\ Gone
  /\ fd' = [w \in Tasks |-> "none"]
  /\ alone' = {}
  /\ UNCHANGED <<cache, temporary, reuse, overlap>>

CacheNext ==
  \/ SessionStep
  \/ \E w \in TopUps : TopUpFinds(w) \/ TopUpFails(w)
  \/ \E w \in Tasks : UpdateStep(w)
  \/ SessionDropped
  \/ ProcessDies

CacheSpec == CacheInit /\ [][CacheNext]_cacheVars

-----------------------------------------------------------------------------
(***************************************************************************)
(* Properties.                                                             *)
(***************************************************************************)

Has(list, gateway) == \E i \in DOMAIN list : list[i].gateway = gateway

(* An entry goes only from a full list, and only when nothing slower stays *)
(* in it.                                                                  *)
LosesOnlyTheSlowest(before, after) ==
  \A i \in DOMAIN before :
    \/ Has(after, before[i].gateway)
    \/ /\ Len(after) = MAX_CACHED_MASQUE_GATEWAYS
       /\ \A j \in DOMAIN after : after[j].rtt <= before[i].rtt

(* As long as updates do not overlap, and again after the first one that   *)
(* finished by itself, the cache goes from one whole list to another and   *)
(* forgets nothing but the slowest, whatever a full disk, a dropped        *)
(* session or the death of the process leaves behind.                      *)
LoneUpdatesAreAtomic ==
  [][cache' # cache /\ ~overlap' =>
       /\ cache'.state = "whole"
       /\ LosesOnlyTheSlowest(cache.list, cache'.list)]_cacheVars

=============================================================================
