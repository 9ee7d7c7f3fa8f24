-------------------------- MODULE CompileContract --------------------------
(***************************************************************************)
(* What witwin.channel.scene.compile promises each caller, with no cache:  *)
(* a call either fails or returns a runtime whose every part was built     *)
(* from the caller's own world as it was at some moment of the call.       *)
(***************************************************************************)
EXTENDS Naturals

CONSTANTS
  Threads, Worlds, Objects,
  Parts, Reads,           \* the parts of a runtime and the version domains each reads
  Leaf,                   \* Leaf[w][d]: the object holding domain d of world w
  MaxEdits                \* bound on the edits of an object

VARIABLES
  rev,     \* rev[o]: number of in-place edits of o
  call,    \* call[t]: the world asked for and the revisions at the start
  served   \* served[t]: of each part, the contents of the domains it was built from

vars == <<rev, call, served>>

NoCall == [none |-> TRUE]
NotServed == [nothing |-> TRUE]

Ask(t, w) ==
  /\ call' = [call EXCEPT ![t] = [world |-> w, start |-> rev]]
  /\ served' = [served EXCEPT ![t] = NotServed]
  /\ UNCHANGED rev

\* Each part is built from the caller's world, each domain of it at a revision
\* the world had during the call.
Serve(t) ==
  /\ call[t] # NoCall /\ served[t] = NotServed
  /\ LET w == call[t].world
         got == served'[t]
     IN /\ DOMAIN got = Parts
        /\ \A p \in Parts :
             /\ DOMAIN got[p] = Reads[p]
             /\ \A d \in Reads[p] :
                  /\ got[p][d].object = Leaf[w][d]
                  /\ got[p][d].revision \in call[t].start[Leaf[w][d]]..rev[Leaf[w][d]]
        /\ served' = [served EXCEPT ![t] = got]
  /\ UNCHANGED <<rev, call>>

Fail(t) ==
  /\ call[t] # NoCall /\ served[t] = NotServed
  /\ call' = [call EXCEPT ![t] = NoCall]
  /\ UNCHANGED <<rev, served>>

Edit(o) ==
  /\ rev[o] < MaxEdits
  /\ rev' = [rev EXCEPT ![o] = @ + 1]
  /\ UNCHANGED <<call, served>>

Init ==
  /\ rev = [o \in Objects |-> 0]
  /\ call = [t \in Threads |-> NoCall] /\ served = [t \in Threads |-> NotServed]

Next ==
  \/ \E t \in Threads : Serve(t) \/ Fail(t) \/ \E w \in Worlds : Ask(t, w)
  \/ \E o \in Objects : Edit(o)

Spec == Init /\ [][Next]_vars
=============================================================================
