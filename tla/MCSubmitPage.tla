----------------------------- MODULE MCSubmitPage -----------------------------
(***************************************************************************)
(* Small instances of SubmitPage.                                          *)
(***************************************************************************)
EXTENDS SubmitPage

FormAndGallery == {PageHash("submit"), PageHash("inspiration")}
=============================================================================
