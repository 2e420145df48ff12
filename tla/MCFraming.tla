------------------------------ MODULE MCFraming ------------------------------
(* A few messages, cut and joined in every way.                             *)
EXTENDS FramingBytes

AllProtocols == {"agent", "http", "dubbo"}
AllGood == {}
FourthBad == {4}
=============================================================================
