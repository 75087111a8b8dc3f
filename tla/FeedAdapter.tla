---------------------------- MODULE FeedAdapter -----------------------------
(***************************************************************************)
(* WebSocketFeedAdapter (src/mittelwerk/telemetry/feed.py): the task that  *)
(* runs connect(), which reconnects for as long as the adapter runs, and   *)
(* disconnect(), which any other task may call at each of its awaits.      *)
(* connect() is called again only when it has ended.                       *)
(***************************************************************************)
EXTENDS Integers

VARIABLES stage,     \* the await at which connect() stands
          running,   \* _running
          woken,     \* _disconnect_event is set
          known,     \* _websocket is the socket, not None
          socket,    \* the socket of the latest attempt: none, open, closed
          closing,   \* a disconnect() still waits for the socket to close
          asked,     \* history: disconnect() was called since connect() began
          late,      \* history: the socket was opened after that
          breach     \* history: an attempt was begun or a reading published after it

adapterVars == <<stage, running, woken, known, socket, closing, asked, late, breach>>

AdapterInit ==
  /\ stage = "ended"
  /\ running = FALSE /\ woken = FALSE
  /\ known = FALSE /\ socket = "none" /\ closing = FALSE
  /\ asked = FALSE /\ late = FALSE /\ breach = FALSE

-----------------------------------------------------------------------------
\* The head of the reconnect loop: the next attempt
Attempt ==
  /\ stage' = "connecting"
  /\ breach' = (breach \/ asked')

End ==
  /\ stage' = "ended"
  /\ UNCHANGED breach

\* What disconnect() did before the first step of connect() is undone.
Connect ==
  /\ stage = "ended"
  /\ running' = TRUE /\ woken' = FALSE
  /\ asked' = FALSE /\ late' = FALSE
  /\ Attempt
  /\ UNCHANGED <<known, socket, closing>>

\* An attempt is over, whatever ended it.
Retry ==
  IF running
  THEN stage' = "waiting" /\ UNCHANGED <<running, breach>>
  ELSE End /\ UNCHANGED running

\* websockets.connect fails.
FailToConnect ==
  /\ stage = "connecting"
  /\ Retry
  /\ UNCHANGED <<woken, known, socket, closing, asked, late>>

\* It succeeds, also when disconnect() was called meanwhile: that found no socket.
Open ==
  /\ stage = "connecting"
  /\ stage' = "subscribing"
  /\ socket' = "open" /\ known' = TRUE
  /\ late' = asked
  /\ UNCHANGED <<running, woken, closing, asked, breach>>

\* websocket.send returns, or raises since the socket is closed.
Subscribe ==
  /\ stage = "subscribing"
  /\ stage' \in IF socket = "open" THEN {"receiving", "leaving"} ELSE {"leaving"}
  /\ UNCHANGED <<running, woken, known, socket, closing, asked, late, breach>>

\* For mutation: the message is handled before the flag is looked at.
MessageUnchecked ==
  /\ UNCHANGED stage
  /\ breach' = (breach \/ asked)

\* A message ends the loop when the adapter was told to stop, and is published, or
\* ignored as malformed, when it was not.
Message ==
  IF running THEN UNCHANGED stage /\ breach' = (breach \/ asked)
  ELSE stage' = "leaving" /\ UNCHANGED breach

Receive ==
  /\ stage = "receiving" /\ socket = "open"
  /\ Message
  /\ UNCHANGED <<running, woken, known, socket, closing, asked, late>>

\* The stream ends, because somebody closed it or the transport broke.
StreamEnds ==
  /\ stage = "receiving"
  /\ stage' = "leaving"
  /\ UNCHANGED <<running, woken, known, socket, closing, asked, late, breach>>

\* The async with closes the socket on the way out.
LeaveSocket ==
  /\ stage = "leaving"
  /\ socket' = "closed" /\ known' = FALSE
  /\ closing' = FALSE
  /\ Retry
  /\ UNCHANGED <<woken, asked, late>>

\* The delay is over or the event is set: the loop looks at its flag.
Wake ==
  /\ stage = "waiting"
  /\ UNCHANGED <<running, woken, known, socket, closing, asked, late>>
  /\ IF running THEN Attempt ELSE End

\* The task of connect() is cancelled, at any of its awaits.
CancelTask ==
  /\ stage # "ended"
  /\ End
  /\ running' = FALSE /\ known' = FALSE
  /\ socket' = IF socket = "open" THEN "closed" ELSE socket
  /\ closing' = FALSE
  /\ UNCHANGED <<woken, asked, late>>

\* For mutation: the active socket is left to the loop.
ClosesNothing == closing

\* "close the active socket, if present"
ClosesSocket == closing \/ known

Disconnect ==
  /\ running' = FALSE /\ woken' = TRUE
  /\ asked' = TRUE
  /\ closing' = ClosesSocket
  /\ UNCHANGED <<stage, known, socket, late, breach>>

\* The close that a disconnect() waits for happens.
Closed ==
  /\ closing
  /\ closing' = FALSE
  /\ socket' = "closed"
  /\ UNCHANGED <<stage, running, woken, known, asked, late, breach>>

AdapterNext ==
  \/ Connect \/ FailToConnect \/ Open \/ Subscribe \/ Receive \/ StreamEnds
  \/ LeaveSocket \/ Wake \/ CancelTask \/ Disconnect \/ Closed

\* What the event loop and the timeouts of the websockets library bring about: an
\* attempt ends, a request is sent or refused, a close is finished, a delay is over,
\* and a stream over a closed socket ends.  That a message comes is not promised.
TaskProgress ==
  \/ FailToConnect \/ Open \/ Subscribe \/ LeaveSocket \/ Wake
  \/ socket = "closed" /\ StreamEnds

-----------------------------------------------------------------------------
\* Properties

\* From the moment disconnect() is called no further attempt is begun and no
\* reading is published, at whichever await it finds the task; the socket is on
\* its way to be closed unless its opening was pending at that moment, and when the
\* task ends no socket is left open or remembered.
DisconnectHolds ==
  /\ asked => ~breach
  /\ asked /\ socket = "open" => closing \/ late \/ stage = "leaving"
  /\ stage = "ended" => socket # "open" /\ ~known /\ ~running

\* After disconnect() the task of connect() ends by itself, except when the call came
\* while the opening of a socket was pending: the loop then waits on a socket that
\* nobody closes, for a message that may never come.
DisconnectEnds == [](asked => <>(stage = "ended" \/ late))

=============================================================================
