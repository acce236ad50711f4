----------------------------- MODULE MCPlayback -----------------------------
(* Playback on small instances.                                              *)
EXTENDS Playback

CONSTANTS a, b, d

TwoTracks == <<a, b>>
=============================================================================
