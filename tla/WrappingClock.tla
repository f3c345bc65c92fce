--------------------------- MODULE WrappingClock ---------------------------
(***************************************************************************)
(* The library on the clock of the ESP8266.  bst_get_system_time_ms        *)
(* divides a 32-bit count of microseconds by 1000: after LastMs comes 0,   *)
(* while the deadlines are numbers that the library has added up before.   *)
(* BootstrapWifi knows what is left of a deadline; due is the number.      *)
(*                                                                         *)
(* Only for options without an advanced connection, which is the one case  *)
(* where the library sets the deadline of a running mode to 0.             *)
(***************************************************************************)
EXTENDS BootstrapWifi

CONSTANT LastMs   \* the last value of the clock, 2^32 \div 1000

VARIABLES
  now,     \* bst_get_system_time_ms()
  due,     \* timeout_connecting_* and time_nonce_valid
  called   \* bst_periodic was called at this time

clockVars == <<vars, now, due, called>>

\* The numbers that a step leaves in prv_instance.state: what it has set is now
\* and something, the memset of a session is 0, all else is as it was.
Noted ==
  due' = [timeout    |-> IF st'.timeout # Past THEN now + st'.timeout ELSE due.timeout,
          nonceValid |-> IF st'.nonceValid # Past THEN now + st'.nonceValid
                         ELSE IF st'.deviceNonce = NoNonce THEN 0
                         ELSE due.nonceValid]

Call == Periodic /\ called' = TRUE /\ Noted /\ UNCHANGED now

Other == Environment /\ Noted /\ UNCHANGED <<now, called>>

Advance ==
  /\ now < LastMs
  /\ now' = now + 1
  /\ Tick
  /\ UNCHANGED due

\* From LastMs to 0: what is left of a deadline is its number again.
Wrap ==
  /\ now = LastMs
  /\ now' = 0
  /\ st' = [st EXCEPT !.timeout = due.timeout, !.nonceValid = due.nonceValid]
  /\ sent' = {}
  /\ UNCHANGED <<config, ram, flags, flash, link, scan, due>>

\* The main loop is much faster than the clock.
Clock == called /\ called' = FALSE /\ (Advance \/ Wrap)

ClockInit ==
  /\ Init
  /\ now = 0 /\ called = FALSE
  /\ due = [timeout |-> IF st.timeout = Past THEN 0 ELSE st.timeout, nonceValid |-> 0]

ClockSpec ==
  /\ ClockInit /\ [][Call \/ Other \/ Clock]_clockVars
  /\ WF_clockVars(Call) /\ WF_clockVars(Clock)

\* bootstrapWifi.h:66: "If a connection can not be established in the given time
\* in ms, a reconnection attempt will be made periodically with the given interval
\* in ms."  A device in want of its destination begins attempts for ever, or gives
\* up; it does not wait in one attempt that the radio has ended.
ReconnectsPeriodically ==
  []<>~(st.mode = "CONNECTING_TO_DEST" /\ link.status = "NO_CONNECTION")
=============================================================================
