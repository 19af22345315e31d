---------------------------- MODULE MCAppliance ----------------------------
(***************************************************************************)
(* Small instances of the appliance: a request that is allowed, a request  *)
(* that needs review, and the registry before and after an edit that       *)
(* changes the review grants of the second, or denies it.                  *)
(***************************************************************************)
EXTENDS ApplianceInvariants

Req(id, capability, payload) ==
    [id |-> id, capability |-> capability, action |-> "write", resource |-> "doc",
     payload |-> payload]

write1    == Req("w", "file", "1")
publish   == Req("p", "publish", "1")

Grant(id, effect, capabilities) ==
    [id |-> id, effect |-> effect, capability |-> capabilities,
     actions |-> {"write"}, resources |-> {"doc"}]

MCProtected == {"runtime.policy"}

\* Files may be written, publishing needs review; the wildcard grant does not
\* reach the control plane.
Open ==
    [version |-> 1,
     grants |-> <<Grant("any", "ALLOW", {"file", "publish", "runtime.policy"}),
                  Grant("ask", "REVIEW", {"publish"})>>]

\* A second review grant covers publishing.
Tight ==
    [version |-> 2,
     grants |-> <<Grant("any", "ALLOW", {"file", "publish", "runtime.policy"}),
                  Grant("ask", "REVIEW", {"publish"}),
                  Grant("ask2", "REVIEW", {"publish"})>>]

\* Publishing is denied.
Closed ==
    [version |-> 3,
     grants |-> <<Grant("any", "ALLOW", {"file", "publish", "runtime.policy"}),
                  Grant("ask", "REVIEW", {"publish"}),
                  Grant("no", "DENY", {"publish"})>>]

Writes     == {write1}
Publishes  == {publish}
MCEdits    == {Tight, Closed}

\* An id a reviewer may give to more than one lease.
MCLeaseNames == {<<"own", 0>>}

=============================================================================
