--------------------------- MODULE MCChangeDUState ---------------------------
(* Three requests: one is reported while another runs and a third is called for. *)
EXTENDS ChangeDUState
=============================================================================
