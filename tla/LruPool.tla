------------------------------ MODULE LruPool -------------------------------
(***************************************************************************)
(* What the pool of reassemblers promises (rns_resource.h): the resources  *)
(* heard last are put together in parallel, each apart from the others,    *)
(* and a new one takes the place of the one heard longest ago.             *)
(***************************************************************************)
EXTENDS Naturals, FiniteSets

CONSTANTS
    Resource,
    PoolSize,
    PartCount       \* the number of parts of each resource

VARIABLES
    got,        \* the parts that came of each resource, none if not in progress
    later,      \* <<r, o>> for r and o in progress, r heard later than o
    done        \* the resources delivered

Init == got = [r \in Resource |-> {}] /\ later = {} /\ done = {}

Others(r) == {o \in Resource \ {r} : got[o] # {}}

HeardFirst(S) == {o \in S : \A r \in S \ {o} : <<r, o>> \in later}

\* Those that stay when a resource takes its place.
Kept(others) ==
    IF Cardinality(others) < PoolSize THEN others ELSE others \ HeardFirst(others)

\* What is left of the others, and of their order.
Keep(kept, r, parts) ==
    got' = [o \in Resource |-> IF o = r THEN parts ELSE IF o \in kept THEN got[o] ELSE {}]

\* A part comes, and others are missing or one of them was changed on its way.
Hear(r, i) ==
    LET kept == Kept(Others(r))
    IN  /\ Keep(kept, r, got[r] \cup {i})
        /\ later' = (later \cap (kept \X kept)) \cup ({r} \X kept)
        /\ UNCHANGED done

\* The last part comes: the resource leaves the pool.
Deliver(r, i) ==
    LET kept == Kept(Others(r))
    IN  /\ got[r] \cup {i} = 1 .. PartCount[r]
        /\ Keep(kept, r, {})
        /\ later' = later \cap (kept \X kept)
        /\ done' = done \cup {r}

\* A part of the resource last heard that was there already changes nothing.
Next ==
    /\ got' # got \/ later' # later \/ done' # done
    /\ \E r \in Resource : \E i \in 1 .. PartCount[r] : Hear(r, i) \/ Deliver(r, i)

Spec == Init /\ [][Next]_<<got, later, done>>

=============================================================================
