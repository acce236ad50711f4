----------------------------- MODULE MCScrobble -----------------------------
(* Scrobble on small instances.                                              *)
EXTENDS Scrobble

CONSTANTS lastfm, listenbrainz
Two == <<lastfm, listenbrainz>>
=============================================================================
