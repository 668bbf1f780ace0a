--------------------------- MODULE MCDeviceRegistry ---------------------------
(* The instance of DeviceRegistry TLC checks: what the hosts may announce.   *)
EXTENDS DeviceRegistry

CONSTANTS me, d1, d2

\* An announcement under the only service name.
Says(receiver, avail, current, addrs) ==
  [receiver |-> receiver, avail |-> avail, current |-> current, addrs |-> addrs,
   name |-> "n1"]

Open == Says(TRUE, "available", TRUE, {"private_a", "docker"})

\* d1 is open at one of two addresses, one of them beside a container bridge, or
\* taken, or not listening, or of another version; d2 comes and goes.
MCAnnouncement ==
  [ d \in Device |->
      IF d # d1 THEN {Open}
      ELSE { Open,
             Says(TRUE, "available", TRUE, {"private_b"}),
             Says(TRUE, "busy", TRUE, {"private_a", "docker"}),
             Says(FALSE, "unavailable", TRUE, {"private_b"}),
             Says(TRUE, "available", FALSE, {"private_a", "docker"}) } ]

=============================================================================
