------------------------------ MODULE MCLogin -------------------------------
(***************************************************************************)
(* The default_headers TLC uses for Login: none, and each header that the  *)
(* SDK sets itself.                                                        *)
(***************************************************************************)
EXTENDS Login

MCDefaultHeaders ==
  {NoHeaders, Header("X-Electron-App", "false"), Header("Authorization", <<"own header">>)}

=============================================================================
