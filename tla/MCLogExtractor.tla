--------------------------- MODULE MCLogExtractor ---------------------------
(***************************************************************************)
(* Tracebacks with and without a prefix, as in a log of cloud-init, one in *)
(* the stack of another, one whose prefix is no pattern, errors in a stack *)
(* and outside of one, a warning, and a line with nothing in it, which is  *)
(* too short for the pattern that raises on all others.                    *)
(***************************************************************************)
EXTENDS LogExtractor

Short ==
    [text |-> "ok", head |-> NoHead, under |-> {}, raises |-> {},
     error |-> FALSE, warning |-> FALSE]

Plain == [Short EXCEPT !.raises = {": ("}]

MCLineKinds ==
    {Short,
     [Plain EXCEPT !.text = "Traceback", !.head = ""],
     [Plain EXCEPT !.text = "]: Traceback", !.head = "]: "],
     [Plain EXCEPT !.text = "  Traceback", !.head = "  ", !.under = {""}],
     [Plain EXCEPT !.text = "main: (Traceback", !.head = ": ("],
     [Plain EXCEPT !.text = "    File", !.under = {"", "  "}],
     [Plain EXCEPT !.text = "]:   File", !.under = {"", "]: "}],
     [Plain EXCEPT !.text = "  KeyError: x", !.under = {""}, !.error = TRUE],
     [Plain EXCEPT !.text = "ValueError: x", !.error = TRUE],
     [Plain EXCEPT !.text = "warning: failed: x", !.error = TRUE, !.warning = TRUE]}
=============================================================================
