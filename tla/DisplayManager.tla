--------------------------- MODULE DisplayManager ---------------------------
(***************************************************************************)
(* displaymgr.cpp: the framebuffer the firmware hands out over the mailbox *)
(* and the bar at its bottom that shows that audio plays.                  *)
(***************************************************************************)
EXTENDS Pps

CONSTANT Mailbox  \* what init_framebuffer may meet: a subset of
                  \* Answers

Answers == {"no answer", "no buffer", "empty buffer", "buffer"}

ASSUME DisplayAssumption == Mailbox \in (SUBSET Answers) \ {{}}

VARIABLES fb,   \* g_fb is set
          bar   \* the bar is on the screen

displayVars == <<fb, bar>>

DisplayInit == fb = FALSE /\ bar = FALSE

DisplayMain == <<Subscribe("display"), Pub("cmd/display", "value", 1)>>

\* A call the firmware does not answer leaves g_fb as it was; one it answers
\* without a buffer clears it; one with a buffer of size 0 sets it and fails.
Framebuffer == [do |-> "framebuffer"]

DisplayReady == <<[do |-> "clear"],
                  Pub("display/status", "state", "ready"), Pub("display/status", "width", 1920),
                  Pub("display/status", "height", 1080), Pub("display/status", "depth", 32),
                  Pub("display/status", "pitch", 7680)>>

\* "muted" and the other attributes of the audio status change nothing.
ShowPlaying(n) ==
    IF fb /\ n.key = "state" /\ n.value \in {"playing", "idle"}
    THEN <<[do |-> "bar", on |-> n.value = "playing"]>>
    ELSE <<>>

DisplayPaths == {"cmd/display", "audio/status"}

DisplayHandles(n) ==
    CASE n.path = "cmd/display"  -> <<Framebuffer>>
      [] n.path = "audio/status" -> ShowPlaying(n)

-----------------------------------------------------------------------------
\* Mutant: without a framebuffer the service tries again at once.
BugRetries == /\ Runs("framebuffer")
              /\ \E answer \in Mailbox :
                    IF answer = "buffer" THEN fb' = TRUE /\ Continue(DisplayReady)
                    ELSE /\ Continue(<<Pub("display/status", "state", "no HDMI"),
                                       Pub("cmd/display", "value", 1)>>)
                         /\ UNCHANGED fb
              /\ UNCHANGED <<objects, subs, bar>>

InitFramebuffer == /\ Runs("framebuffer")
                   /\ \E answer \in Mailbox :
                        /\ fb' = CASE answer = "no answer" -> fb
                                   [] answer = "no buffer" -> FALSE
                                   [] answer \in {"empty buffer", "buffer"} -> TRUE
                        /\ Continue(IF answer = "buffer" THEN DisplayReady
                                    ELSE <<Pub("display/status", "state", "no HDMI")>>)
                   /\ UNCHANGED <<objects, subs, bar>>

Clear == /\ Runs("clear")
         /\ bar' = FALSE
         /\ Continue(<<>>)
         /\ UNCHANGED <<objects, subs, fb>>

FillBar == /\ Runs("bar")
           /\ bar' = Now.on
           /\ Continue(<<>>)
           /\ UNCHANGED <<objects, subs, fb>>

DisplayNext == InitFramebuffer \/ Clear \/ FillBar
=============================================================================
