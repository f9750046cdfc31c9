--------------------------- MODULE MCCredentialRules ---------------------------
(* Five connectors, four administrative states of a credential, four days. *)
EXTENDS CredentialRules

Governed == [kind |-> "service", status |-> "active", interval |-> 1, auto |-> "on",
             heartbeat |-> "on", owner |-> "ada", exclusive |-> "on", entitled |-> 1,
             managed |-> "by policy"]
Neglected == [kind |-> "service", status |-> "active", interval |-> Never, auto |-> "off",
              heartbeat |-> "off", owner |-> Nobody, exclusive |-> "off", entitled |-> 2,
              managed |-> Absent]

\* Says nothing of rotation and of the target's copy.
Shared == [kind |-> "human", status |-> "active", interval |-> Never, auto |-> Absent,
           heartbeat |-> Absent, owner |-> "ada", exclusive |-> "off", entitled |-> 2,
           managed |-> "by policy"]
Leaving == [kind |-> "human", status |-> "pending_delete", interval |-> 1, auto |-> "on",
            heartbeat |-> "pending", owner |-> Nobody, exclusive |-> Absent, entitled |-> 2,
            managed |-> "manually"]

FourPostures == {Governed, Neglected, Shared, Leaving}
AllVendors == {"cyberark", "delinea", "beyondtrust", "hashicorp", "generic"}
=============================================================================
