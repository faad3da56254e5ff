------------------------------ MODULE MCAtWriter ------------------------------
(***************************************************************************)
(* Small instances of AtWriter.                                            *)
(***************************************************************************)
EXTENDS AtWriter

mc_Outgoing == {ToString(make_at_cmgs_write(<<"da">>)), ToString(make_ata),
                ToString(make_at_cops_read), TextToString(<<"hello">>)}
=============================================================================
