----------------------------- MODULE MCLifecycle -----------------------------
(* Small instances of Lifecycle: two callers and two closers.              *)
EXTENDS Lifecycle

CONSTANTS p1, p2, c1, c2

TwoCallers == {p1, p2}
OneCaller == {p1}
TwoClosers == {c1, c2}
OneCloser == {c1}

AllCalls == CallKinds
LockedCalls == {"locked"}
=============================================================================
