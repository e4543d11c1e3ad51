----------------------------- MODULE SkinnyARBoot -----------------------------
(***************************************************************************)
(* CudaCommunicator._skinny_ar_init and the dispatch it decides: how two   *)
(* worker processes agree on one shared file, clean it, and commit to the  *)
(* host-memory route, and which route each call then takes.                *)
(*                                                                         *)
(* A worker loads the extension, opens and maps /dev/shm/skinny_ar_*,      *)
(* zeroes its own half, registers the mapping with CUDA, and meets its     *)
(* peer at a barrier; rank 0 then unlinks the name.  Any exception on the  *)
(* way disables the route on that rank alone.  The name is built from the  *)
(* parent's pid, so a file left by a boot that died before its unlink may  *)
(* be found under it, with that boot's flags in it.                        *)
(*                                                                         *)
(* The group's collectives are external: they block until both ranks are   *)
(* in the same one, and a rank whose peer waits elsewhere times out.       *)
(***************************************************************************)
EXTENDS Naturals, FiniteSets

CONSTANTS
  MaxCalls,     \* bound: the all-reduces a rank makes once it serves
  StaleFlags,   \* the flag values an earlier boot may have left behind
  MaxFailures,  \* bound: how many initialisation steps may raise
  Small         \* Small[n]: call n passes every size and alignment test;
                \* sizes are the same on both ranks, and so is the alignment
                \* of the address, which the allocators of both make 16 bytes

ASSUME BootAssumption ==
  /\ MaxCalls \in Nat
  /\ StaleFlags \subseteq Nat
  /\ MaxFailures \in Nat
  /\ Small \in [1 .. MaxCalls -> BOOLEAN]

Ranks == {0, 1}
Peer(r) == 1 - r
NoFile == 0
Files == 1 .. 3          \* inodes: one left over, at most one per rank
Parities == {0, 1}
Zeroed == [p \in Parities |-> 0]
Blank == [r \in Ranks |-> Zeroed]

VARIABLES
  pc,        \* where each worker is in its boot, then "serve"
  skinny,    \* skinny[r]: self._skinny_ar is set
  name,      \* the file the shared name leads to, NoFile if there is none
  flag,      \* flag[f][r][p]: rank r's flag of parity p in file f
  map,       \* map[r]: the file rank r has mapped
  call,      \* call[r]: the all-reduce r entered last
  route,     \* route[r]: the route of the call r is in, "none" between calls
  done,      \* done[r]: the calls r has returned from
  failures   \* exceptions raised so far
vars == <<pc, skinny, name, flag, map, call, route, done, failures>>
serving == <<call, route, done>>

Init ==
  /\ pc = [r \in Ranks |-> "load"]
  /\ skinny = [r \in Ranks |-> FALSE]
  /\ \/ /\ name = NoFile
        /\ flag = [f \in Files |-> Blank]
     \/ /\ name = 1
        /\ \E stale \in [Ranks -> [Parities -> StaleFlags]] :
             flag = [f \in Files |-> IF f = 1 THEN stale ELSE Blank]
  /\ map = [r \in Ranks |-> NoFile]
  /\ call = [r \in Ranks |-> 0]
  /\ route = [r \in Ranks |-> "none"]
  /\ done = [r \in Ranks |-> 0]
  /\ failures = 0

Goto(r, there) == pc' = [pc EXCEPT ![r] = there]

-------------------------------------------------------------------------------
\* A plausible slip: the route set as soon as the extension is loaded.
LoadCommits(r) ==
  /\ pc[r] = "load"
  /\ skinny' = [skinny EXCEPT ![r] = TRUE]
  /\ Goto(r, "open")
  /\ UNCHANGED <<name, flag, map, serving, failures>>

(* The extension is found, compiled and loaded.                            *)
Load(r) ==
  /\ pc[r] = "load"
  /\ Goto(r, "open")
  /\ UNCHANGED <<skinny, name, flag, map, serving, failures>>

\* A file nobody has touched.
Fresh(f) == flag[f] = Blank /\ f # name /\ \A q \in Ranks : map[q] # f

(* open(O_CREAT), ftruncate and mmap: the file the name leads to, or a new *)
(* one of zeroes.                                                          *)
Open(r) ==
  /\ pc[r] = "open"
  /\ \/ /\ name = NoFile
        /\ \E f \in Files : Fresh(f) /\ name' = f /\ map' = [map EXCEPT ![r] = f]
     \/ /\ name # NoFile
        /\ map' = [map EXCEPT ![r] = name]
        /\ UNCHANGED name
  /\ Goto(r, "zero")
  /\ UNCHANGED <<skinny, flag, serving, failures>>

\* A plausible slip: the flags an earlier boot left are not cleared.
ZeroNothing(r) ==
  /\ pc[r] = "zero"
  /\ Goto(r, "register")
  /\ UNCHANGED <<skinny, name, flag, map, serving, failures>>

(* memset of this rank's flags and slots.                                  *)
Zero(r) ==
  /\ pc[r] = "zero"
  /\ flag' = [flag EXCEPT ![map[r]][r] = Zeroed]
  /\ Goto(r, "register")
  /\ UNCHANGED <<skinny, name, map, serving, failures>>

\* A plausible slip: rank 0 removes the name before the barrier.
UnlinkEarly(r) ==
  /\ pc[r] = "register"
  /\ name' = IF r = 0 THEN NoFile ELSE name
  /\ Goto(r, "barrier")
  /\ UNCHANGED <<skinny, flag, map, serving, failures>>

(* cudaHostRegister, the device counters, g.ready.                         *)
Register(r) ==
  /\ pc[r] = "register"
  /\ Goto(r, "barrier")
  /\ UNCHANGED <<skinny, name, flag, map, serving, failures>>

(* Any of these steps may raise; the caller logs, leaves the route off and *)
(* goes on to the group's next collective without the barrier.             *)
Fail(r) ==
  /\ pc[r] \in {"load", "open", "zero", "register"}
  /\ failures < MaxFailures
  /\ failures' = failures + 1
  /\ Goto(r, "next")
  /\ UNCHANGED <<skinny, name, flag, map, serving>>

\* A plausible slip: no barrier, as "both ranks zero their own half anyway".
NoBarrier(r) ==
  /\ pc[r] = "barrier"
  /\ Goto(r, "unlink")
  /\ UNCHANGED <<skinny, name, flag, map, serving, failures>>

(* Both ranks of the group are in the barrier, or one has left it already. *)
Barrier(r) ==
  /\ pc[r] = "barrier"
  /\ pc[Peer(r)] \in {"barrier", "unlink"} \/ skinny[Peer(r)]
  /\ Goto(r, "unlink")
  /\ UNCHANGED <<skinny, name, flag, map, serving, failures>>

(* The peer waits in another collective: the barrier raises, and the same  *)
(* handler disables the route here too.                                    *)
BarrierTimeout(r) ==
  /\ pc[r] = "barrier"
  /\ ~ skinny[Peer(r)]
  /\ pc[Peer(r)] \in {"next", "dead"}
  /\ Goto(r, "next")
  /\ UNCHANGED <<skinny, name, flag, map, serving, failures>>

\* A plausible slip: the assignment indented under `if rank == 0`.
UnlinkRank0Only(r) ==
  /\ pc[r] = "unlink"
  /\ name' = IF r = 0 THEN NoFile ELSE name
  /\ skinny' = [skinny EXCEPT ![r] = (r = 0)]
  /\ Goto(r, "next")
  /\ UNCHANGED <<flag, map, serving, failures>>

(* Rank 0 removes the name; the route is on.                               *)
Unlink(r) ==
  /\ pc[r] = "unlink"
  /\ name' = IF r = 0 THEN NoFile ELSE name
  /\ skinny' = [skinny EXCEPT ![r] = TRUE]
  /\ Goto(r, "next")
  /\ UNCHANGED <<flag, map, serving, failures>>

(* The group's next collective (building the other communicators).         *)
NextCollective(r) ==
  /\ pc[r] = "next"
  /\ pc[Peer(r)] \in {"next", "serve"}
  /\ Goto(r, "serve")
  /\ UNCHANGED <<skinny, name, flag, map, serving, failures>>

(* Its timeout is caught by nobody: the worker's boot fails.               *)
NextTimeout(r) ==
  /\ pc[r] = "next"
  /\ \/ pc[Peer(r)] = "barrier" /\ ~ skinny[r]
     \/ pc[Peer(r)] = "dead"
  /\ Goto(r, "dead")
  /\ UNCHANGED <<skinny, name, flag, map, serving, failures>>

-------------------------------------------------------------------------------
\* The device's call counter: only calls of this route advance it.
Seq(n) == Cardinality({m \in 1 .. n : Small[m]})

(* CudaCommunicator.all_reduce: the host-memory route when it is on and    *)
(* the tensor fits it, the stock chain otherwise.                          *)
AllReduce(r) ==
  LET n == call[r] + 1
      hostMemory == skinny[r] /\ Small[n]
  IN  /\ pc[r] = "serve"
      /\ route[r] = "none"
      /\ call[r] < MaxCalls
      /\ call' = [call EXCEPT ![r] = n]
      /\ route' = [route EXCEPT ![r] = IF hostMemory THEN "skinny" ELSE "stock"]
      /\ flag' = IF hostMemory
                   THEN [flag EXCEPT ![map[r]][r][Seq(n) % 2] = Seq(n)]
                   ELSE flag
      /\ UNCHANGED <<pc, skinny, name, map, done, failures>>

(* The spin on the peer's flag ends.                                       *)
SkinnyReturn(r) ==
  /\ route[r] = "skinny"
  /\ flag[map[r]][Peer(r)][Seq(call[r]) % 2] = Seq(call[r])
  /\ route' = [route EXCEPT ![r] = "none"]
  /\ done' = [done EXCEPT ![r] = call[r]]
  /\ UNCHANGED <<pc, skinny, name, flag, map, call, failures>>

(* A stock backend returns once both ranks are in its collective.          *)
StockReturn(r) ==
  /\ route[r] = "stock"
  /\ \/ route[Peer(r)] = "stock" /\ call[Peer(r)] = call[r]
     \/ done[Peer(r)] >= call[r]
  /\ route' = [route EXCEPT ![r] = "none"]
  /\ done' = [done EXCEPT ![r] = call[r]]
  /\ UNCHANGED <<pc, skinny, name, flag, map, call, failures>>

(* Both ranks have made their calls, or the boot has failed.               *)
Finished ==
  /\ \A r \in Ranks : pc[r] = "dead" \/ done[r] = MaxCalls
  /\ UNCHANGED vars

Step(r) ==
  \/ Load(r) \/ Open(r) \/ Zero(r) \/ Register(r)
  \/ Barrier(r) \/ BarrierTimeout(r) \/ Unlink(r)
  \/ NextCollective(r) \/ NextTimeout(r)
  \/ AllReduce(r) \/ SkinnyReturn(r) \/ StockReturn(r)

Next == (\E r \in Ranks : Step(r) \/ Fail(r)) \/ Finished

Spec == Init /\ [][Next]_vars

\* A worker process that can move does; raising is never obligatory.
FairSpec == Spec /\ \A r \in Ranks : WF_vars(Step(r))

-------------------------------------------------------------------------------
TypeOK ==
  /\ pc \in [Ranks -> {"load", "open", "zero", "register", "barrier",
                       "unlink", "next", "serve", "dead"}]
  /\ skinny \in [Ranks -> BOOLEAN]
  /\ name \in Files \cup {NoFile}
  /\ flag \in [Files -> [Ranks -> [Parities -> Nat]]]
  /\ map \in [Ranks -> Files \cup {NoFile}]
  /\ call \in [Ranks -> 0 .. MaxCalls]
  /\ route \in [Ranks -> {"none", "skinny", "stock"}]
  /\ done \in [Ranks -> 0 .. MaxCalls]
  /\ failures \in 0 .. MaxFailures
  /\ \A r \in Ranks : skinny[r] => map[r] # NoFile

(* The ranks never take different routes for the same call: one would spin *)
(* on a flag nobody raises while the other waits in a collective.          *)
SameRoute ==
  \A r \in Ranks :
    call[r] = call[Peer(r)] /\ "none" \notin {route[r], route[Peer(r)]} =>
      route[r] = route[Peer(r)]

(* Ranks that both use the route share one file.                           *)
OneFile == skinny[0] /\ skinny[1] => map[0] = map[1]

(* No call returns before the peer has entered it: in particular, a flag   *)
(* left by an earlier boot never satisfies a wait.                         *)
NeverAlone == \A r \in Ranks : done[r] <= call[Peer(r)]

(* "never fail a boot on this" (cuda_communicator.py:158).                 *)
NeverFailsABoot == \A r \in Ranks : pc[r] # "dead"

(* When nothing raises, both ranks come up and make all their calls.       *)
BothServe ==
  <>(failures > 0 \/ \A r \in Ranks : done[r] = MaxCalls)
===============================================================================
