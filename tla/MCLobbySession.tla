--------------------------- MODULE MCLobbySession ---------------------------
(* The session with two web requests and two taps under way.                *)
EXTENDS LobbySession, TLC

=============================================================================
