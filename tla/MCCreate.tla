------------------------------ MODULE MCCreate ------------------------------
(* Values for Create: DDFs that meet each early return, limit and loop.     *)
EXTENDS Create

CONSTANT ManyScripts      \* references to a script in a long DDF

Member_(key, value) == <<key, ":">> \o value

Commas(parts) ==
  LET from[k \in 1 .. Len(parts)] ==
        IF k = Len(parts) THEN parts[k] ELSE parts[k] \o <<",">> \o from[k + 1]
  IN  IF parts = <<>> THEN <<>> ELSE from[1]

Object(members) == <<"{">> \o Commas(members) \o <<"}">>
Array(elements) == <<"[">> \o Commas(elements) \o <<"]">>
Strs(texts) == Array([k \in DOMAIN texts |-> <<texts[k]>>])

Item(n, script) == Object(<< Member_("name", <<n>>), Member_("script", <<script>>) >>)
Named(n) == Object(<< Member_("name", <<n>>) >>)
WithItems(items) == Object(<< Member_("items", Array(items)) >>)
Between(items) == Object(<< Member_("items", Array(items)), Member_("meta", <<"{", "}">>) >>)

Ids(models, names) ==
  << Member_("modelid", models), Member_("manufacturername", names),
     Member_("product", <<"m1">>) >>

Ddf(models, names, subdevices) ==
  Object(Ids(models, names) \o << Member_("subdevices", Array(subdevices)) >>)

One(subdevices) == Ddf(<<"m1">>, <<"m2">>, subdevices)

Many(n) ==
  Object(<< Member_("items", Array(<< Named("x") >>)),
            Member_("meta", Object([k \in 1 .. n |-> Member_("script", <<"a.js">>)])) >>)

PlainTexts ==
  { Ddf(Strs(<<"m1", "m2">>), Strs(<<"m1">>), <<>>),
    Ddf(Strs(<<"m1">>), <<"m1">>, <<>>),
    One(<< Between(<< Item("x", "b.js") >>), WithItems(<< Named("y_z") >>) >>),
    One(<< WithItems(<< Named("x") >>), WithItems(<< Named("y/z") >>) >>),
    One(<< WithItems(<< Item("x", "mid"), Item("x", "a.js") >>) >>),
    One(<< WithItems(<< Item("x", "long") >>) >>),
    One(<< WithItems(<< Named("gone") >>) >>),
    One(<< WithItems(<< Item("x", "gone") >>) >>),
    One(<< Named("x") >>), One(<< WithItems(<< Object(<<>>) >>) >>),
    One(<< Many(ManyScripts) >>), One(<< Many(ManyScripts + 2) >>),
    Object(Ids(<<"m1">>, <<"m2">>)
             \o << Member_("subdevices", <<"[", "]">>), Member_("script", <<"P">>) >>),
    Object(Ids(<<"m1">>, <<"m2">>)), Object(<< Member_("product", <<"m1">>) >>), <<"{", "i">> }

\* Those that use constants.
UsingTexts ==
  { Ddf(Strs(<<"m1", "m2">>), Strs(<<"$MF", "m1">>),
        << WithItems(<< Item("x", "a.js"), Item("y/z", "b.js"), Named("y_z") >>) >>),
    Ddf(<<"m1">>, <<"$MF">>, << WithItems(<< Named("x") >>) >>),
    One(<< WithItems(<< Named("$A"), Named("$lo") >>) >>),
    Object(Ids(<<"m1">>, <<"m2">>)
             \o << Member_("version", Strs(<<"$A", "$B", "$C", "$D", "$E", "$MF", "$A">>)),
                   Member_("subdevices", Array(<< WithItems(<< Named("x") >>) >>)) >>),
    Ddf(Strs(<<"m1">>), Strs(<<"$none">>), <<>>) }

\* With the first, all constants just fit; with the second, they do not.
ConstTexts ==
  { Object(<< Member_("$MF", <<"m2">>), Member_("$A", <<"wide">>), Member_("$B", <<"wide">>),
              Member_("$C", <<"wide">>), Member_("$D", <<"wide">>), Member_("$E", <<"fill">>) >>),
    Object(<< Member_("$A", <<"[", "]">>), Member_("$B", <<"m2">>), Member_("$C", <<"wide">>),
              Member_("meta", Object(<< Member_("$A", <<"wide">>), Member_("$MF", <<"wide">>) >>)),
              Member_("$D", <<"wide">>), Member_("$MF", <<"m1">>), Member_("$E", <<"wide">>) >>),
    <<"i">> }

MCInputs == {[ddf |-> d, consts |-> c, json |-> TRUE] : d \in UsingTexts, c \in ConstTexts}
            \cup {[ddf |-> d, consts |-> <<"{", "}">>, json |-> TRUE] : d \in PlainTexts}
            \cup {[ddf |-> One(<<>>), consts |-> <<"i">>, json |-> FALSE]}

Keys == {"script", "subdevices", "items", "name", "product", "modelid", "manufacturername",
         "version", "version_deconz", "meta", "0.0.0", ">2.19.3"}
MCTexts == Keys \cup {"m1", "m2", "x", "y/z", "y_z", "gone", "a.js", "b.js", "mid", "long",
                      "wide", "fill", "$MF", "$A", "$B", "$C", "$D", "$E", "$lo", "$none"}
MCDollar == {"$MF", "$A", "$B", "$C", "$D", "$E", "$lo", "$none"}
MCUpper == MCDollar \ {"$lo", "$none"}

MCTextLen ==
  [t \in MCTexts |-> CASE t = "mid" -> 1024 [] t = "wide" -> 4000 [] t = "fill" -> 317 [] t = "long" -> 4096
                       [] t \in Keys -> 8 [] OTHER -> 4]

MCFiles == {"ddf", "base", "constants", "no file", "a.js", "b.js", "x", "y_z"}
MCScriptFile == [t \in MCTexts |-> IF t \in {"a.js", "b.js"} THEN t ELSE "no file"]
MCItemFile ==
  [t \in MCTexts |-> CASE t \in {"y/z", "y_z"} -> "y_z" [] t = "x" -> "x" [] OTHER -> "no file"]

Disk(small, a, b) ==
  [f \in MCFiles |-> CASE f = "no file" -> [size |-> 0, time |-> 0]
                       [] f = "a.js" -> [size |-> a, time |-> 1]
                       [] f = "b.js" -> [size |-> b, time |-> 1]
                       [] OTHER -> [size |-> small, time |-> 1]]
MCDisks == {Disk(490, 30000, 700), Disk(500, 600000, 600000), Disk(500, 999999, 20)}
=============================================================================
