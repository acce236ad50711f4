----------------------------- MODULE MCSchedule -----------------------------
(* Two kinds, a server and the local library.                             *)
EXTENDS Schedule

TwoKinds == <<"library", "playlists">>
=============================================================================
