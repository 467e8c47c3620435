-------------------------- MODULE MCBrowserChannel --------------------------
(* Programs for BrowserChannel: up to three frames of one or two bytes,    *)
(* and up to two receives, which may ask for less, for all or for more.    *)
EXTENDS BrowserChannel
LOCAL INSTANCE SequencesExt

MCPrograms ==
    [frames : BoundedSeq(1..2, 3), requests : BoundedSeq({0, 1, 3, 4}, 2)]
=============================================================================
