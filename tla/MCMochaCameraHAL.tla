-------------------------- MODULE MCMochaCameraHAL --------------------------
(* Small instances of MochaCameraHAL. *)
EXTENDS MochaCameraHAL, TLC

Auto(t) == [mode |-> "auto", trigger |-> t]
\* Both triggers, and one in a mode that does not act on it.
AllSettings == {None, Auto("START"), Auto("CANCEL"), [mode |-> "off", trigger |-> "START"]}
FocusSettings == {None, Auto("START")}

Stream(f, r) == [output |-> TRUE, format |-> f, size |-> r]
SomeConfigurations ==
    {<<Stream("YUV", r), Stream("BLOB", q)>> : r \in Resolution, q \in Resolution}
        \cup {<<Stream("IMPL", r)>> : r \in Resolution}
OneStream == {<<Stream("RGBA", r)>> : r \in Resolution}

AnyStream == [output : BOOLEAN, format : {"RGBA", "IMPL", "YUV", "BLOB"}, size : {"any"}]

\* The loop over the streams in camera_device_configure_streams finds the
\* pipeline stream of every configuration of up to three streams: one that is
\* neither input nor BLOB if there is any, and a YUV one only if it is first.
\* (The choice depends on no state; it is evaluated before the first open.)
SelectionCorrect ==
    device = "closed" /\ flushes = 0 /\ frame = 0 =>
        \A n \in 0 .. 3 : \A s \in [1 .. n -> AnyStream] : SelectedRightly(s)

Resolutions == Permutations(Resolution)
=============================================================================
