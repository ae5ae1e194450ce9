------------------------------ MODULE MCHistory ------------------------------
(* Small instances of History: a few events, pages of one or two, and        *)
(* limits below and above what a page holds.                                *)
EXTENDS History

PageFault == {"page"}
NoFault == {}
=============================================================================
