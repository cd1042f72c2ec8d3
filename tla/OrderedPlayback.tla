-------------------------- MODULE OrderedPlayback --------------------------
(***************************************************************************)
(* What one spoken answer promises the device, whatever the order in which *)
(* its segments are synthesised: the speaker is started once, segments are *)
(* announced and heard one after another, and the answer is declared over  *)
(* only when every segment of the complete text has been heard.            *)
(***************************************************************************)
EXTENDS Naturals

VARIABLES
    known,    \* how many segments the text received so far has produced
    whole,    \* TRUE when no further segment can appear
    speaker,  \* the last tts state the device was told
    shown,    \* the last segment whose sentence was announced
    heard     \* the last segment whose audio was sent

vars == <<known, whole, speaker, shown, heard>>

Init == /\ known = 0 /\ whole = FALSE
        /\ speaker = "idle" /\ shown = 0 /\ heard = 0

\* More text arrives, or the text turns out to be complete.
Read == /\ ~whole
        /\ known' \in Nat /\ known' >= known
        /\ whole' \in BOOLEAN
        /\ UNCHANGED <<speaker, shown, heard>>

StartSpeaking == /\ speaker = "idle" /\ speaker' = "start"
                 /\ known > 0
                 /\ UNCHANGED <<known, whole, shown, heard>>

\* The next segment is announced only after the previous one was heard.
Announce == /\ speaker = "start"
            /\ shown = heard /\ shown < known
            /\ shown' = shown + 1
            /\ UNCHANGED <<known, whole, speaker, heard>>

Hear == /\ speaker = "start"
        /\ heard < shown
        /\ heard' = shown
        /\ UNCHANGED <<known, whole, speaker, shown>>

StopSpeaking == /\ speaker = "start" /\ speaker' = "stop"
                /\ whole /\ heard = known
                /\ UNCHANGED <<known, whole, shown, heard>>

Next == Read \/ StartSpeaking \/ Announce \/ Hear \/ StopSpeaking

Spec == Init /\ [][Next]_vars
=============================================================================
