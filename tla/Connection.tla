------------------------------ MODULE Connection ------------------------------
(***************************************************************************)
(* What CameraSession promises the rest of the bridge about its connection *)
(* to the camera.  A camera session has an address and a key.  The bridge  *)
(* first knows an address, then the key that the camera negotiated at that *)
(* address.  Neither is ever replaced: a connection is given up as a whole *)
(* and the next one starts from nothing.                                   *)
(***************************************************************************)
CONSTANTS
  Sessions,  \* the camera's sessions, each with its own address and key
  None       \* no address known, or no key

VARIABLES
  at,   \* the session whose address the bridge uses
  key   \* the session whose key the bridge uses

Init == at = None /\ key = None

Locate == at = None /\ key = None /\ at' \in Sessions /\ key' = None

Establish == at \in Sessions /\ key = None /\ key' = at /\ at' = at

Lose == at' = None /\ key' = None

Next == Locate \/ Establish \/ Lose

Spec == Init /\ [][Next]_<<at, key>>
=============================================================================
