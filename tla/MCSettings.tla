----------------------------- MODULE MCSettings -----------------------------
(***************************************************************************)
(* Settings of a fresh installation (template secrets), of one made by the *)
(* Windows launcher (a generated admin password, local access without one) *)
(* and of an upgraded public server with a schedule in the old spelling.   *)
(***************************************************************************)
EXTENDS Settings, TLC

Template == [time |-> "t1", on |-> "true", done |-> "false", bind |-> "local", name |-> "n1",
             players |-> "10", channel |-> "", pass |-> "CHANGE_ME", panel |-> "CHANGE_ME", token |-> "",
             admin |-> "CHANGE_ME", passwordless |-> "false"]
AllBases == {Template, [Template EXCEPT !["panel"] = "", !["admin"] = "p1", !["passwordless"] = "true"],
             [Template EXCEPT !["pass"] = "", !["panel"] = "p1", !["admin"] = "p1", !["on"] = "false",
                              !["time"] = "04:30"]}
AllEdits == {[name |-> "n2", time |-> "t1"], [name |-> "separator", time |-> "off"],
             [name |-> "reserved"], [players |-> "99"], [admin |-> "p1"]}
Legacy   == ("04:30" :> "t1")
Symmetry == Permutations(Threads)
=============================================================================
