------------------------- MODULE MCScheduleDownload -------------------------
(* Small instances of the ScheduleDownload transfers.                      *)
EXTENDS ScheduleDownload, TLC

OneRetry == {-1, 1}
MixedModes == {"1 At Any Time", "3 When Idle"}

\* One transfer with every kind of window and a restart, or two transfers
\* with one window each.
OneOrTwo == {[transfers |-> 1, windows |-> 2, modes |-> Modes,
              retries |-> OneRetry, restarts |-> 1],
             [transfers |-> 2, windows |-> 1, modes |-> Supported \cap Modes,
              retries |-> {1}, restarts |-> 0]}

=============================================================================
