------------------------------- MODULE MCWebApp -------------------------------
(***************************************************************************)
(* Small instances of WebApp.                                              *)
(***************************************************************************)
EXTENDS WebApp

OneTaskAndTheList == {PageHash("ops"), TaskHash(1)}
=============================================================================
