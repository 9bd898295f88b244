----------------------------- MODULE MCSession ------------------------------
(* One connection, two tags, and three IDs for one late request. The         *)
(* messages that go over it do not depend on its state: what MessageChecks   *)
(* says of them is evaluated once, in the initial state.                     *)
EXTENDS Session, MessageChecks

(* Printing and parsing a tag again gives the same tag (EIP_parse_tag). *)
TagReadsBack == Init => TagReadsBackHolds

(* A path names its tag, in as many bytes as counted (make_tag_path). *)
PathNamesTag == Init => PathNamesTagHolds

(* The PLC finds the requests of a transfer (CIP_MultiRequest_item). *)
RequestsApart == Init => RequestsApartHolds

(* Each request gets its own reply (get_CIP_MultiRequest_Response). *)
RepliesApart == Init => RepliesApartHolds

(* A frame brings its request to the slot (make_CM_Unconnected_Send). *)
FrameHoldsRequest == Init => FrameHoldsRequestHolds

(* The write of a string stays in its room (make_CIP_WriteData). *)
WriteStaysInside == Init => WriteStaysInsideHolds
=============================================================================
