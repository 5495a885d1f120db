----------------------------- MODULE NameLease ------------------------------
(***************************************************************************)
(* What the PotRegistrar promises of a name, apart from how it keeps its    *)
(* books: a name is leased to one holder at a time, for a term and a grace  *)
(* period in true time.  It is granted when it was never held or when both  *)
(* are over; until then its term only grows, and only the holder, or the    *)
(* delegate the holder appointed, hands it over, with the term it has.      *)
(***************************************************************************)
EXTENDS Naturals

CONSTANTS
    Leasable,       \* the names
    Holders,        \* who may hold one
    Actors,         \* who acts of their own accord
    MinTerm,        \* the shortest term that is granted or added
    EndOfTime,      \* no term ends later
    Unleased        \* no holder, no delegate, no term

VARIABLES
    holder, delegate, \* name -> account, or Unleased
    until,            \* name -> the end of its term, or Unleased
    grace, clock

leaseVars == <<holder, delegate, until, grace, clock>>

-----------------------------------------------------------------------------

\* A term that is counted from `start`: long enough, or up to the end of time.
Term(start, t) == t = EndOfTime \/ t >= start + MinTerm

Leased(n) == holder[n] # Unleased

\* The holder still has the name, or may still have it prolonged.
Kept(n) == Leased(n) /\ clock < until[n] + grace

LeaseInit ==
    /\ holder = [n \in Leasable |-> Unleased]
    /\ delegate = [n \in Leasable |-> Unleased]
    /\ until = [n \in Leasable |-> Unleased]
    /\ clock = 0
    /\ grace \in Nat

\* Nothing but what concerns the name n changes.
Only(n) ==
    /\ holder' = [holder EXCEPT ![n] = holder'[n]]
    /\ delegate' = [delegate EXCEPT ![n] = delegate'[n]]
    /\ until' = [until EXCEPT ![n] = until'[n]]
    /\ UNCHANGED <<grace, clock>>

Grant(n) ==
    /\ ~Kept(n)
    /\ holder'[n] \in Holders /\ delegate'[n] = Unleased
    /\ until'[n] \in 0 .. EndOfTime /\ Term(clock, until'[n])
    /\ Only(n)

Prolong(n) ==
    /\ Kept(n)
    /\ until'[n] \in until[n] .. EndOfTime /\ Term(until[n], until'[n])
    /\ UNCHANGED <<holder, delegate>> /\ Only(n)

HandOver(n) ==
    /\ Leased(n)
    /\ {holder[n], delegate[n]} \cap Actors # {}
    /\ holder'[n] \in Holders /\ delegate'[n] = Unleased
    /\ UNCHANGED until /\ Only(n)

Appoint(n) ==
    /\ Leased(n) /\ holder[n] \in Actors
    /\ delegate'[n] \in Holders
    /\ UNCHANGED <<holder, until>> /\ Only(n)

\* The grace period is the operator's to change, for leases that run as well.
ChangeGrace == /\ grace' \in Nat /\ UNCHANGED <<holder, delegate, until, clock>>

Pass == /\ clock' = clock + 1 /\ UNCHANGED <<holder, delegate, until, grace>>

LeaseNext ==
    \/ \E n \in Leasable : Grant(n) \/ Prolong(n) \/ HandOver(n) \/ Appoint(n)
    \/ ChangeGrace
    \/ Pass

LeaseSpec == LeaseInit /\ [][LeaseNext]_leaseVars

=============================================================================
