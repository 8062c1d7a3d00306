------------------------------- MODULE Gateway -------------------------------
(***************************************************************************)
(* The process of the gateway over several runs: requests and the reset    *)
(* behind one lock, the lazily imported services, and the file each has    *)
(* with PERSIST_STATE=1.  Requests run on the event loop; a reset works    *)
(* through the services on a thread of its own, while requests that passed *)
(* the gate before go on; a shutdown saves one file after the other, while *)
(* a reset that was under way goes on too; a crash may come anywhere.      *)
(*                                                                         *)
(* A service's state is the set of writes it holds (numbered), a file's    *)
(* payload likewise.  That a service's reset() and get_state() are taken   *)
(* in one step is an abstraction.  GwServices is their number, in the      *)
(* order of the registry.  GwMaxWrites, GwMaxResets, GwMaxBoots and        *)
(* GwMaxTroubles (services that do not come up in a run) bound a behaviour.*)
(***************************************************************************)
EXTENDS Naturals, Sequences, FiniteSets

CONSTANTS GwServices, GwRequests, GwFormats, GwMaxWrites, GwMaxResets, GwMaxBoots, GwMaxTroubles

ASSUME GwAssumption ==
  /\ "reset" \notin GwRequests /\ GwFormats \subseteq Nat \ {0}
  /\ {GwServices, GwMaxWrites, GwMaxResets, GwMaxBoots, GwMaxTroubles} \subseteq Nat

VARIABLES
  gwRun,     \* phase, format the binary writes, services that do not import
  gwModule,  \* service -> "none", "loaded" or "error" (_ErrorModule)
  gwMemory,  \* service -> the writes it holds
  gwFile,    \* service -> its file, or GwNoFile
  gwSaving,  \* what shutdown has still to save, and the temporary file
  gwLock,    \* _reset_lock: who holds it, and behind it who waits, in order
  gwWiping,  \* the reset's thread: the services it has not come to
  gwRequest, \* request -> "idle", "gate" or "past" it
  gwWrites,  \* writes so far
  gwBoots,
  gwSeen,    \* history: the reset that was under way when the request came
  gwResets,  \* history: resets that got the lock, answered, and their marks
  gwKept     \* history: what a file has been given and must not lose

gwVars == <<gwRun, gwModule, gwMemory, gwFile, gwSaving, gwLock, gwWiping,
            gwRequest, gwWrites, gwBoots, gwSeen, gwResets, gwKept>>

GwIds == 1..GwServices
GwFirst(S) == {s \in S : \A x \in S : s <= x}
GwNoFile == [format |-> 0, holds |-> {}]
GwNothing == [s \in GwIds |-> {}]
GwIdle == [q \in GwRequests |-> "idle"]
GwDown == [phase |-> "down", format |-> 0, broken |-> {}]
GwNotSaving == [left |-> {}, writing |-> {}, tmp |-> {}]
GwNotWiping == [on |-> FALSE, left |-> {}]

GwUp == gwRun.phase = "up"
GwHolds(x) == gwLock # <<>> /\ Head(gwLock) = x

GwInit ==
  /\ gwRun = GwDown
  /\ gwModule = [s \in GwIds |-> "none"] /\ gwMemory = GwNothing
  /\ gwFile = [s \in GwIds |-> GwNoFile]
  /\ gwSaving = GwNotSaving /\ gwLock = <<>> /\ gwWiping = GwNotWiping
  /\ gwRequest = GwIdle /\ gwSeen = [q \in GwRequests |-> 0]
  /\ gwWrites = 0 /\ gwBoots = 0
  /\ gwResets = [begun |-> 0, done |-> 0, mark |-> 0, wiped |-> 0]
  /\ gwKept = GwNothing

-----------------------------------------------------------------------------
(* Start-up, before the port is open: every file is loaded that there is,   *)
(* unless its format is newer (load_state) or its service does not import,  *)
(* or fails on it (failing) and goes on fresh.                              *)
GwReadable(s, format) == gwFile[s] # GwNoFile /\ gwFile[s].format <= format

GwBoot(format, broken, failing) ==
  LET loads(s) == GwReadable(s, format) /\ s \notin broken
      refused == {s \in GwIds : gwFile[s].format > format} IN
  /\ gwRun.phase = "down" /\ gwBoots < GwMaxBoots
  /\ failing \subseteq {s \in GwIds : loads(s)} /\ Cardinality(broken \cup failing) <= GwMaxTroubles
  /\ gwBoots' = gwBoots + 1
  /\ gwRun' = [phase |-> "up", format |-> format, broken |-> broken]
  /\ gwModule' = [s \in GwIds |-> IF ~GwReadable(s, format) THEN "none"
                                       ELSE IF s \in broken THEN "error" ELSE "loaded"]
  /\ gwMemory' = [s \in GwIds |-> IF loads(s) /\ s \notin failing THEN gwFile[s].holds ELSE {}]
  /\ gwKept' = [s \in GwIds |-> IF s \in failing \cup refused THEN {} ELSE gwKept[s]]
  /\ UNCHANGED <<gwFile, gwSaving, gwLock, gwWiping, gwRequest, gwWrites, gwSeen, gwResets>>

(* A request comes to the gate, and a reset to the lock.                    *)
GwArrive(q) ==
  /\ GwUp /\ gwRequest[q] = "idle"
  /\ gwRequest' = [gwRequest EXCEPT ![q] = "gate"]
  /\ gwLock' = Append(gwLock, q)
  /\ gwSeen' = [gwSeen EXCEPT ![q] = IF GwHolds("reset") /\ gwWiping.on THEN gwResets.begun ELSE 0]
  /\ UNCHANGED <<gwRun, gwModule, gwMemory, gwFile, gwSaving, gwWiping, gwWrites, gwBoots, gwResets, gwKept>>

(* `async with _get_reset_lock(): pass', then what the request awaits: its  *)
(* body, the service's handler.                                             *)
GwPass(q) ==
  /\ GwUp /\ GwHolds(q)
  /\ gwLock' = Tail(gwLock)
  /\ gwRequest' = [gwRequest EXCEPT ![q] = "past"]
  /\ UNCHANGED <<gwRun, gwModule, gwMemory, gwFile, gwSaving, gwWiping, gwWrites, gwBoots, gwSeen, gwResets, gwKept>>

(* Its handler imports the service if it is the first to need it, and may   *)
(* write; then it awaits something more, or has answered.                   *)
GwHandle(q, s, writes, ends) ==
  LET module == IF gwModule[s] # "none" THEN gwModule[s]
                ELSE IF s \in gwRun.broken THEN "error" ELSE "loaded" IN
  /\ GwUp /\ gwRequest[q] = "past"
  /\ writes => module = "loaded" /\ gwWrites < GwMaxWrites
  /\ writes \/ ends
  /\ gwModule' = [gwModule EXCEPT ![s] = module]
  /\ gwWrites' = IF writes THEN gwWrites + 1 ELSE gwWrites
  /\ gwMemory' = IF writes THEN [gwMemory EXCEPT ![s] = @ \cup {gwWrites + 1}] ELSE gwMemory
  /\ gwRequest' = IF ends THEN [gwRequest EXCEPT ![q] = "idle"] ELSE gwRequest
  /\ gwSeen' = IF ends THEN [gwSeen EXCEPT ![q] = 0] ELSE gwSeen
  /\ UNCHANGED <<gwRun, gwFile, gwSaving, gwLock, gwWiping, gwBoots, gwResets, gwKept>>

-----------------------------------------------------------------------------
(* POST /_ministack/reset waits for the lock, and has its thread started.   *)
GwResetArrives ==
  /\ GwUp /\ gwResets.begun < GwMaxResets /\ \A i \in DOMAIN gwLock : gwLock[i] # "reset"
  /\ gwLock' = Append(gwLock, "reset")
  /\ UNCHANGED <<gwRun, gwModule, gwMemory, gwFile, gwSaving, gwWiping, gwRequest, gwWrites, gwBoots, gwSeen, gwResets, gwKept>>

GwResetBegins ==
  /\ GwUp /\ GwHolds("reset") /\ ~gwWiping.on
  /\ gwWiping' = [on |-> TRUE, left |-> GwIds]
  /\ gwResets' = [gwResets EXCEPT !.begun = @ + 1, !.mark = gwWrites]
  /\ gwKept' = GwNothing
  /\ UNCHANGED <<gwRun, gwModule, gwMemory, gwFile, gwSaving, gwLock, gwRequest, gwWrites, gwBoots, gwSeen>>

(* The thread: a service that was imported is emptied.                      *)
GwResetService(s) ==
  /\ gwWiping.on /\ s \in GwFirst(gwWiping.left)
  /\ gwWiping' = [gwWiping EXCEPT !.left = @ \ {s}]
  /\ gwMemory' = [gwMemory EXCEPT ![s] = IF gwModule[s] = "loaded" THEN {} ELSE @]
  /\ UNCHANGED <<gwRun, gwModule, gwFile, gwSaving, gwLock, gwRequest, gwWrites, gwBoots, gwSeen, gwResets, gwKept>>

(* After the last service every *.json goes, and with the thread's end the  *)
(* lock is free and the reset is answered, if the loop still serves.        *)
GwResetFiles ==
  /\ gwWiping.on /\ gwWiping.left = {}
  /\ gwFile' = [s \in GwIds |-> GwNoFile]
  /\ gwWiping' = GwNotWiping
  /\ gwLock' = IF GwHolds("reset") THEN Tail(gwLock) ELSE gwLock
  /\ gwResets' = IF GwUp THEN [gwResets EXCEPT !.done = gwResets.begun, !.wiped = gwResets.mark] ELSE gwResets
  /\ gwKept' = GwNothing
  /\ UNCHANGED <<gwRun, gwModule, gwMemory, gwSaving, gwRequest, gwWrites, gwBoots, gwSeen>>

-----------------------------------------------------------------------------
(* Shutdown: requests that do not end in time are cancelled, the thread of  *)
(* a reset is not; then every module that is there is saved.                *)
GwShutdown ==
  /\ GwUp
  /\ gwRun' = [gwRun EXCEPT !.phase = "stopping"]
  /\ gwSaving' = [GwNotSaving EXCEPT !.left = {s \in GwIds : gwModule[s] # "none"}]
  /\ gwRequest' = GwIdle /\ gwLock' = <<>> /\ gwSeen' = [q \in GwRequests |-> 0]
  /\ UNCHANGED <<gwModule, gwMemory, gwFile, gwWiping, gwWrites, gwBoots, gwResets, gwKept>>

(* Faulty: it has {}, and what the last working run saved is overwritten.   *)
GwHasStateAlways(s) == TRUE

(* What get_state of a service gives save_all: _ErrorModule has None, and   *)
(* its file is left alone.                                                  *)
GwHasState(s) == gwModule[s] = "loaded"

(* The state goes to a temporary file.                                      *)
GwWrite(s) ==
  /\ gwRun.phase = "stopping" /\ s \in GwFirst(gwSaving.left) /\ gwSaving.writing = {}
  /\ gwSaving' = IF GwHasState(s) THEN [gwSaving EXCEPT !.writing = {s}, !.tmp = gwMemory[s]]
                 ELSE [gwSaving EXCEPT !.left = @ \ {s}]
  /\ UNCHANGED <<gwRun, gwModule, gwMemory, gwFile, gwLock, gwWiping, gwRequest, gwWrites, gwBoots, gwSeen, gwResets, gwKept>>

(* os.replace, which marks the format; or one of both failed and is logged. *)
GwReplace(s, succeeds) ==
  /\ s \in gwSaving.writing
  /\ gwSaving' = [left |-> gwSaving.left \ {s}, writing |-> {}, tmp |-> {}]
  /\ gwFile' = IF succeeds THEN [gwFile EXCEPT ![s] = [format |-> gwRun.format, holds |-> gwSaving.tmp]]
               ELSE gwFile
  /\ gwKept' = IF succeeds /\ ~gwWiping.on THEN [gwKept EXCEPT ![s] = @ \cup gwSaving.tmp] ELSE gwKept
  /\ UNCHANGED <<gwRun, gwModule, gwMemory, gwLock, gwWiping, gwRequest, gwWrites, gwBoots, gwSeen, gwResets>>

(* The process ends: after the last file and the last thread, or anywhere.  *)
GwEnds ==
  /\ gwRun' = GwDown
  /\ gwModule' = [s \in GwIds |-> "none"] /\ gwMemory' = GwNothing
  /\ gwSaving' = GwNotSaving /\ gwLock' = <<>> /\ gwWiping' = GwNotWiping
  /\ gwRequest' = GwIdle /\ gwSeen' = [q \in GwRequests |-> 0]
  /\ UNCHANGED <<gwFile, gwWrites, gwBoots, gwResets, gwKept>>

GwExit == gwRun.phase = "stopping" /\ gwSaving.left = {} /\ ~gwWiping.on /\ GwEnds
GwCrash == gwRun.phase # "down" /\ GwEnds

GwNext ==
  \/ \E f \in GwFormats, broken, failing \in SUBSET GwIds : GwBoot(f, broken, failing)
  \/ \E q \in GwRequests :
       \/ GwArrive(q) \/ GwPass(q)
       \/ \E s \in GwIds, writes, ends \in BOOLEAN : GwHandle(q, s, writes, ends)
  \/ GwResetArrives \/ GwResetBegins \/ GwResetFiles
  \/ GwShutdown \/ GwExit \/ GwCrash
  \/ \E s \in GwIds :
       GwResetService(s) \/ GwWrite(s) \/ \E succeeds \in BOOLEAN : GwReplace(s, succeeds)

GwSpec == GwInit /\ [][GwNext]_gwVars

-----------------------------------------------------------------------------
(* Phases, the lock and the thread fit together; a service that is not      *)
(* there holds nothing.                                                     *)
GwTypeOK ==
  /\ gwRun.phase \in {"down", "up", "stopping"}
  /\ gwModule \in [GwIds -> {"none", "loaded", "error"}]
  /\ \A s \in GwIds : /\ gwMemory[s] \cup gwFile[s].holds \cup gwKept[s] \subseteq 1..gwWrites
                           /\ gwModule[s] # "loaded" => gwMemory[s] = {}
  /\ gwRequest \in [GwRequests -> {"idle", "gate", "past"}]
  /\ \A q \in GwRequests : gwRequest[q] = "gate" <=> \E i \in DOMAIN gwLock : gwLock[i] = q
  /\ GwUp /\ gwWiping.on => GwHolds("reset")
  /\ gwResets.done <= gwResets.begun /\ gwResets.wiped <= gwResets.mark

(* "new requests block until state-wipe completes so no test can observe a  *)
(* half-reset server" (app.py:3446): a request that came during a reset is  *)
(* not handled before that reset has ended.                                 *)
GwNoHalfReset == \A q \in GwRequests : gwRequest[q] = "past" => gwSeen[q] <= gwResets.done

(* A reset that was answered sticks: nothing written before it began comes  *)
(* back, from memory or from a file, in this run or a later one.            *)
GwResetSticks ==
  \A s \in GwIds : (gwMemory[s] \cup gwFile[s].holds) \cap (1..gwResets.wiped) = {}

(* What a shutdown has saved stays saved: crashes, failed saves, runs that  *)
(* do not import the service, and runs that add to it keep it.  A run that  *)
(* could not load it, and a reset, are excepted.                            *)
GwSavedStays == \A s \in GwIds : gwKept[s] \subseteq gwFile[s].holds
=============================================================================
