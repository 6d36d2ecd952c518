---------------------------- MODULE PairingWindow ----------------------------
(***************************************************************************)
(* sensirion_gadget_bridge.cpp: the window in which a numeric comparison   *)
(* is confirmed.  The Bluetooth stack, which keeps the bonds and asks for  *)
(* the confirmation, is external.                                          *)
(***************************************************************************)
EXTENDS Integers, FiniteSets

CONSTANTS
    Peers,           \* phones
    Bonds,           \* sets of them that may be bonded at first
    PairingTime      \* pairing_window_ms_, in ticks

VARIABLES
    pairing_mode,    \* the bridge's
    pairing_age,     \* ticks since the window was opened
    switch,          \* ble_pairing_mode_: the monitor's copy, which its switch shows
    peer,            \* the connected phone, or NoPeer
    link,            \* "open", "confirmed" or "secure"
    bonded,          \* phones that may resume an encrypted link
    opened           \* how often the window has been opened

pairingVars == <<pairing_mode, pairing_age, switch, peer, link, bonded, opened>>

NoPeer == "none"

PairingInit ==
    /\ pairing_mode = FALSE /\ pairing_age = 0 /\ switch = FALSE
    /\ peer = NoPeer /\ link = "open"
    /\ bonded \in Bonds /\ opened = Cardinality(bonded)

PairingBoot ==
    /\ pairing_mode' = FALSE /\ pairing_age' = 0 /\ switch' = FALSE
    /\ peer' = NoPeer /\ link' = "open"
    /\ UNCHANGED <<bonded, opened>>

\* The bridge's own switch; the monitor's also changes its copy.
SetPairingMode(on, own) ==
    /\ pairing_mode' = on /\ pairing_age' = 0
    /\ switch' = IF own THEN switch ELSE on
    /\ opened' = IF on THEN opened + 1 ELSE opened
    /\ UNCHANGED <<peer, link, bonded>>

process_pairing_window ==
    /\ pairing_mode' = (pairing_mode /\ pairing_age < PairingTime)
    /\ UNCHANGED <<pairing_age, switch, peer, link, bonded, opened>>

process_ble_pairing_window ==
    /\ switch' = pairing_mode
    /\ UNCHANGED <<pairing_mode, pairing_age, peer, link, bonded, opened>>

Connect(p) ==
    /\ peer = NoPeer /\ peer' = p /\ link' = "open"
    /\ UNCHANGED <<pairing_mode, pairing_age, switch, bonded, opened>>

Disconnect ==
    /\ peer # NoPeer /\ peer' = NoPeer /\ link' = "open"
    /\ UNCHANGED <<pairing_mode, pairing_age, switch, bonded, opened>>

\* The stack asks; the answer is yes while the window is open.
NumericComparison ==
    /\ peer # NoPeer /\ link = "open" /\ peer \notin bonded
    /\ link' = IF pairing_mode THEN "confirmed" ELSE "open"
    /\ UNCHANGED <<pairing_mode, pairing_age, switch, peer, bonded, opened>>

\* The first success closes the window.  (StaysOpen: until its time is over.)
StaysOpen(ok) == pairing_mode
OpenAfter(ok) == pairing_mode /\ ~ok

AuthComplete(ok) ==
    /\ peer # NoPeer /\ link # "secure"
    /\ ok => link = "confirmed" \/ peer \in bonded
    /\ pairing_mode' = OpenAfter(ok)
    /\ link' = IF ok THEN "secure" ELSE "open"
    /\ bonded' = IF ok THEN bonded \cup {peer} ELSE bonded
    /\ UNCHANGED <<pairing_age, switch, peer, opened>>

PairingTick == pairing_age' = IF pairing_age < PairingTime THEN pairing_age + 1 ELSE pairing_age
=============================================================================
