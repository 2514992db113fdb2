--------------------------- MODULE MCSessionActions ---------------------------
EXTENDS SessionActions

\* A steering message, a follow-up and a slash command, and a tree navigation.
MCInput == {"steer", "next", "compact"}
MCCommand == {"compact"}
MCLaneOf == [i \in MCInput |-> IF i = "steer" THEN "steering" ELSE "followUp"]
MCNavigator == {"tree"}

\* A steering message, a follow-up and a heartbeat with the follow-up's key.
MCQueue == {"steer", "next", "beat"}
MCLaneOfQueue == [i \in MCQueue |-> IF i = "steer" THEN "steering" ELSE "followUp"]
MCKeyed == {"next", "beat"}
MCBeat == {"beat"}

\* A prompt alone.
MCOne == {"next"}
MCLaneOfOne == [i \in MCOne |-> "followUp"]
=============================================================================
