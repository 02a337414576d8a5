--------------------------------- MODULE Exti ---------------------------------
(***************************************************************************)
(* ucoo::ExtiHard (hal/exti/exti.stm32.cc): external interrupt lines, some *)
(* of which share one interrupt vector.  For a shared vector a counter     *)
(* tells whether the interrupt is needed by any line.                      *)
(*                                                                         *)
(* The main program constructs, enables, masks, unmasks, disables and      *)
(* destroys; edges come at any time; the handler of a vector runs as one   *)
(* step.  An edge is latched in PR when the line is not masked in IMR.     *)
(***************************************************************************)
EXTENDS Integers, Sequences, FiniteSets

CONSTANTS Lines,            \* line numbers
          Vector,           \* exti_hardware[n].irq
          SharedVectors,    \* vectors with a counter, exti_hardware[n].enabled
          MaxNest,          \* bound: nested mask/unmask brackets
          DestroyDisabled   \* may the client destroy a disabled line?

Vectors == {Vector[l] : l \in Lines}

ASSUME ExtiLines == IsFiniteSet(Lines) /\ Vector \in [Lines -> Vectors]
                    /\ SharedVectors \subseteq Vectors

\* Lines of the same vector share its counter (exti.stm32.cc:46).
ASSUME ExtiShared ==
    \A l, m \in Lines : Vector[l] = Vector[m] => l = m \/ Vector[l] \in SharedVectors

ASSUME ExtiBounds == MaxNest \in Nat /\ DestroyDisabled \in BOOLEAN

VARIABLES
    instances,  \* lines with an object in exti_instances
    enabled,    \* lines the client enabled and did not disable since
    imr, pr,    \* lines set in IMR, in PR
    counter,    \* the counter of each shared vector
    irq,        \* vectors enabled in the interrupt controller
    brackets,   \* open mask brackets, innermost first: line and saved state
    served,     \* lines whose handler_ the last vector handler called
    halted      \* an assertion failed

extiVars == <<instances, enabled, imr, pr, counter, irq, brackets, served, halted>>

ExtiInit ==
    /\ instances = {} /\ enabled = {}
    /\ imr = {} /\ pr = {}
    /\ counter = [v \in SharedVectors |-> 0]
    /\ irq = {}
    /\ brackets = << >>
    /\ served = {} /\ halted = FALSE

Masked(l) == \E i \in 1..Len(brackets) : brackets[i].line = l

\* The constructor.
Construct(l) ==
    /\ l \notin instances
    /\ instances' = instances \cup {l}
    /\ UNCHANGED <<enabled, imr, pr, counter, irq, brackets, served, halted>>

\* Mutant of enable: the vector is enabled again for every line.
enableAlways(l) ==
    /\ l \in instances \ enabled
    /\ ~Masked(l)
    /\ enabled' = enabled \cup {l}
    /\ imr' = imr \cup {l}
    /\ irq' = irq \cup {Vector[l]}
    /\ counter' = IF Vector[l] \in SharedVectors
                  THEN [counter EXCEPT ![Vector[l]] = @ + 1] ELSE counter
    /\ UNCHANGED <<instances, pr, brackets, served, halted>>

\* Mutant of enable: the counter is tested, not incremented.
enableNoCount(l) ==
    /\ l \in instances \ enabled
    /\ ~Masked(l)
    /\ enabled' = enabled \cup {l}
    /\ imr' = imr \cup {l}
    /\ irq' = irq \cup {Vector[l]}
    /\ UNCHANGED <<instances, pr, counter, brackets, served, halted>>

\* The client enables a line it has not enabled, outside of its own brackets.
enable(l) ==
    /\ l \in instances \ enabled
    /\ ~Masked(l)
    /\ enabled' = enabled \cup {l}
    /\ imr' = imr \cup {l}
    /\ IF Vector[l] \in SharedVectors
       THEN /\ irq' = IF counter[Vector[l]] = 0 THEN irq \cup {Vector[l]} ELSE irq
            /\ counter' = [counter EXCEPT ![Vector[l]] = @ + 1]
       ELSE /\ irq' = irq \cup {Vector[l]}
            /\ UNCHANGED counter
    /\ UNCHANGED <<instances, pr, brackets, served, halted>>

\* Mutant of Release: the pending bit is left set.
ReleaseKeepPending(l) ==
    /\ IF Vector[l] \in SharedVectors
       THEN /\ irq' = IF counter[Vector[l]] = 1 THEN irq \ {Vector[l]} ELSE irq
            /\ counter' = [counter EXCEPT ![Vector[l]] = @ - 1]
       ELSE /\ irq' = irq \ {Vector[l]}
            /\ UNCHANGED counter
    /\ imr' = imr \ {l}
    /\ pr' = pr

\* Mutant of Release: the vector is disabled whatever the other lines.
ReleaseVector(l) ==
    /\ irq' = irq \ {Vector[l]}
    /\ counter' = IF Vector[l] \in SharedVectors
                  THEN [counter EXCEPT ![Vector[l]] = @ - 1] ELSE counter
    /\ imr' = imr \ {l}
    /\ pr' = pr \ {l}

\* What ExtiHard::disable does, whoever calls it.
Release(l) ==
    /\ IF Vector[l] \in SharedVectors
       THEN /\ irq' = IF counter[Vector[l]] = 1 THEN irq \ {Vector[l]} ELSE irq
            /\ counter' = [counter EXCEPT ![Vector[l]] = @ - 1]
       ELSE /\ irq' = irq \ {Vector[l]}
            /\ UNCHANGED counter
    /\ imr' = imr \ {l}
    /\ pr' = pr \ {l}

\* The client disables a line it has enabled.
disable(l) ==
    /\ l \in enabled
    /\ enabled' = enabled \ {l}
    /\ Release(l)
    /\ UNCHANGED <<instances, brackets, served, halted>>

\* The destructor always calls disable.
Destroy(l) ==
    /\ l \in instances
    /\ DestroyDisabled \/ l \in enabled
    /\ ~Masked(l)
    /\ enabled' = enabled \ {l}
    /\ Release(l)
    /\ instances' = instances \ {l}
    /\ UNCHANGED <<brackets, served, halted>>

\* mask returns the state of the vector and disables it.
mask(l) ==
    /\ l \in instances
    /\ Len(brackets) < MaxNest
    /\ brackets' = <<[line |-> l, saved |-> Vector[l] \in irq]>> \o brackets
    /\ irq' = irq \ {Vector[l]}
    /\ UNCHANGED <<instances, enabled, imr, pr, counter, served, halted>>

\* unmask with what the innermost mask returned.
unmask ==
    /\ brackets # << >>
    /\ irq' = IF Head(brackets).saved
              THEN irq \cup {Vector[Head(brackets).line]} ELSE irq
    /\ brackets' = Tail(brackets)
    /\ UNCHANGED <<instances, enabled, imr, pr, counter, served, halted>>

\* An edge on an unmasked line (hardware).
Edge(l) ==
    /\ l \in imr
    /\ pr' = pr \cup {l}
    /\ UNCHANGED <<instances, enabled, imr, counter, irq, brackets, served, halted>>

\* interrupt<Irq>: acknowledge what is pending, then call the instances.
Interrupt(v) ==
    LET pending == {l \in pr : Vector[l] = v}
    IN  /\ v \in irq
        /\ pending \cap imr # {}
        /\ pr' = pr \ pending
        /\ halted' = (pending \ instances # {})
        /\ served' = pending
        /\ UNCHANGED <<instances, enabled, imr, counter, irq, brackets>>

ExtiNext ==
    \/ \E l \in Lines : Construct(l)
    \/ \E l \in Lines : enable(l)
    \/ \E l \in Lines : disable(l)
    \/ \E l \in Lines : Destroy(l)
    \/ \E l \in Lines : mask(l)
    \/ unmask
    \/ \E l \in Lines : Edge(l)
    \/ \E v \in Vectors : Interrupt(v)

ExtiSpec == ExtiInit /\ [][ExtiNext]_extiVars

--------------------------------------------------------------------------------
(* Properties. *)

ExtiTypeOK ==
    /\ enabled \subseteq instances /\ instances \subseteq Lines
    /\ imr \subseteq Lines /\ pr \subseteq Lines /\ served \subseteq Lines
    /\ counter \in [SharedVectors -> Nat]
    /\ irq \subseteq Vectors
    /\ brackets \in Seq([line : Lines, saved : BOOLEAN])
    /\ halted \in BOOLEAN

\* "Number of enabled EXTI for vector 9 down to 5" (exti.stm32.cc:39).
CounterIsNumberEnabled ==
    \A v \in SharedVectors :
        counter[v] = Cardinality({l \in enabled : Vector[l] = v})

\* Outside of every bracket the vector of an enabled line is enabled, whatever
\* its neighbours on the vector did before.
EnabledIsServed ==
    brackets = << >> => \A l \in enabled : Vector[l] \in irq

\* A masked line that is enabled cannot interrupt, whatever its neighbours on
\* the vector do in the meantime (mask returns the state to restore, so a
\* bracket inside another one may not reopen it).
MaskHolds ==
    \A l \in enabled : Masked(l) => Vector[l] \notin irq

\* A vector never finds a line pending whose object is gone: the assertion
\* (exti.stm32.cc:120) holds, even for a line destroyed with an edge pending
\* while its neighbour keeps the vector enabled.
NeverOrphan == pr \subseteq instances /\ ~halted
================================================================================
