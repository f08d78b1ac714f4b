--------------------------- MODULE MCAudioForward ----------------------------
EXTENDS AudioForward, TLC

CONSTANTS r48, r44, SenderPeriods, SenderChannels

MCSenders ==
  {[rate |-> r48, channels |-> c, period |-> n, compatible |-> TRUE] :
     c \in SenderChannels, n \in SenderPeriods}
  \cup {[rate |-> r44, channels |-> 2, period |-> 1, compatible |-> FALSE]}

==============================================================================
