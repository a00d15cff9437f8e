--------------------------- MODULE MCChatboxPreview ---------------------------
(***************************************************************************)
(* A small instance of ChatboxPreview: two utterances, of one and of two   *)
(* pages, a typed message of three and a blank one.  The page interval is  *)
(* twice the preview gap (3.0 s and 1.5 s), and previews are further apart *)
(* than the gap (1.8 s).                                                   *)
(***************************************************************************)
EXTENDS ChatboxPreview

MCPageCount ==
    [m \in Messages |-> CASE m = "blank" -> 0
                          [] m = "two"   -> 2
                          [] m = "three" -> 3
                          [] OTHER       -> 1]
=============================================================================
