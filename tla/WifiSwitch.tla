----------------------------- MODULE WifiSwitch -----------------------------
(***************************************************************************)
(* The part of co2_monitor_0601.cpp that switches Wi-Fi: the Home          *)
(* Assistant switch, the setting it shares with the phone, the debounced   *)
(* USB detection and the recovery window that connecting USB opens.  Each  *)
(* function maps the monitor's state m to the next one; loop() runs them   *)
(* one after the other.                                                    *)
(***************************************************************************)
EXTENDS Integers

CONSTANTS
    Debounce,        \* DEBOUNCE_MS, in ticks
    StablePoll,      \* STABLE_POLL_MS; the poll while debouncing is shorter than a tick
    DisableDelay,    \* the 1500 ms before Wi-Fi stops
    RecoveryWindow   \* wifi_recovery_window_ms_

VARIABLES
    monitor,   \* see Booted
    pin        \* the level of the USB detection input

NotArmed == -1

\* After setup(): pending counts the ticks since the disable was requested, recovery
\* the ticks left of the window, since those of an unchanged candidate, polled those
\* since the last poll.  Setting up the other components takes "elapsed" ticks.
Booted(level, elapsed) ==
    [enabled |-> TRUE, up |-> TRUE, pending |-> NotArmed, recovery |-> NotArmed,
     known |-> FALSE, usb |-> FALSE, candidate |-> level, since |-> elapsed, polled |-> StablePoll]

open_wifi_recovery_window(m) ==
    IF m.enabled THEN m ELSE [m EXCEPT !.recovery = RecoveryWindow, !.up = TRUE]

\* set_wifi_ha_enabled, without the write to the setting.
Set(m, enabled) ==
    IF enabled
    THEN [m EXCEPT !.enabled = TRUE, !.pending = NotArmed, !.recovery = NotArmed, !.up = TRUE]
    ELSE [m EXCEPT !.enabled = FALSE, !.pending = 0, !.recovery = NotArmed]

sync_wifi_ha_from_sensirion_settings(m, ha_disabled) ==
    IF m.enabled = ~ha_disabled THEN m ELSE Set(m, ~ha_disabled)

\* The rest of what a new USB state changes is in Co2Gate.
process_usb_power(m, raw) ==
    LET active == ~m.known \/ m.candidate # m.usb
        polled == [m EXCEPT !.polled = 0]
        accepted == [polled EXCEPT !.usb = raw, !.known = TRUE]
    IN IF ~active /\ m.polled < StablePoll THEN m
       ELSE IF raw # m.candidate THEN [polled EXCEPT !.candidate = raw, !.since = 0]
       ELSE IF m.since < Debounce \/ (m.known /\ m.usb = raw) THEN polled
       ELSE IF raw THEN open_wifi_recovery_window(accepted) ELSE accepted

\* A window that has run out.  (StaysUp: Wi-Fi is left as it is.)
StaysUp(m) == [m EXCEPT !.recovery = NotArmed]
Offline(m) == [m EXCEPT !.recovery = NotArmed, !.up = FALSE]

process_wifi_ha_control(m) ==
    CASE ~m.known                        -> m
      [] m.known /\ m.enabled            -> [m EXCEPT !.up = TRUE]
      [] m.known /\ ~m.enabled /\ m.pending # NotArmed ->
           IF m.pending < DisableDelay THEN m ELSE [m EXCEPT !.pending = NotArmed, !.up = FALSE]
      [] m.known /\ ~m.enabled /\ m.pending = NotArmed /\ m.recovery > 0 -> [m EXCEPT !.up = TRUE]
      [] OTHER                           -> Offline(m)

\* loop(), up to the pairing window.
Loop(m, raw, ha_disabled) ==
    process_wifi_ha_control(sync_wifi_ha_from_sensirion_settings(process_usb_power(m, raw), ha_disabled))

Later(n, limit) == IF n < limit THEN n + 1 ELSE n
WifiTick(m) ==
    [m EXCEPT !.pending = IF @ = NotArmed THEN NotArmed ELSE Later(@, DisableDelay),
              !.recovery = IF @ > 0 THEN @ - 1 ELSE @,
              !.since = Later(@, Debounce), !.polled = Later(@, StablePoll)]
=============================================================================
