------------------------------ MODULE Requests ------------------------------
(***************************************************************************)
(* The requests of the library (lib/include/message.hpp and messages/) and *)
(* what they look like on the wire (to_string in lib/include/write.hpp).   *)
(* The five booleans of the request template are one form, their order in  *)
(* to_string being the order of its tests; strings are sequences of tokens.*)
(***************************************************************************)
EXTENDS Sequences

Request(form, command, args) == [form |-> form, command |-> command, args |-> args]

make_at                    == Request("basic", <<>>, <<>>)
make_ati                   == Request("basic", <<"I">>, <<>>)
make_ata                   == Request("basic", <<"A">>, <<>>)
make_ath                   == Request("basic", <<"H">>, <<>>)
make_atd(params)           == Request("basic", <<"D">>, params)
make_at_cmgf_write(params) == Request("write", <<"CMGF">>, params)
make_at_cscs_write(params) == Request("write", <<"CSCS">>, params)
make_at_cmgs_write(params) == Request("write", <<"CMGS">>, params)
make_at_cnmi_write(params) == Request("write", <<"CNMI">>, params)
make_at_cusd_write(params) == Request("write", <<"CUSD">>, params)
make_at_qcfg_write(params) == Request("write", <<"QCFG">>, params)
make_at_qpcmv_write(params) == Request("write", <<"QPCMV">>, params)
make_at_cops_test          == Request("test", <<"COPS">>, <<>>)
make_at_cops_read          == Request("read", <<"COPS">>, <<>>)

ToString(r) ==
  <<"AT">>
    \o (CASE r.form = "set"   -> <<"S">> \o r.command \o <<"=">> \o r.args
          [] r.form = "test"  -> <<"+">> \o r.command \o <<"=?">>
          [] r.form = "read"  -> <<"+">> \o r.command \o <<"?">>
          [] r.form = "write" -> <<"+">> \o r.command \o <<"=">> \o r.args
          [] r.form = "exec"  -> <<"+">> \o r.command
          [] OTHER            -> r.command \o r.args)
    \o <<"CR", "LF">>

\* async_write_text: a text is closed with Ctrl-Z.
SUB == "SUB"
TextToString(text) == text \o <<SUB>>

\* Whether what was written has the token t.
Names(written, t) == \E i \in DOMAIN written : written[i] = t
=============================================================================
