--------------------------- MODULE MCChannelGraph ---------------------------
EXTENDS ChannelPrograms
CONSTANTS a1, a2, b1, b2

\* Three of the four pairs: a1 waits for two partners, b1 is trimmed for two,
\* and b2 has a partner fewer than b1.
Crossed == {<<a1, b1>>, <<a1, b2>>, <<a2, b1>>}
CrossedPhotons == [c \in Channels |-> CASE c = a1 -> {2, 4}
                                        [] c = a2 -> {0}
                                        [] c = b1 -> {0, 2, 3}
                                        [] c = b2 -> {2}]
LaggingPhotons == [c \in Channels |-> CASE c = a1 -> {1, 3, 4}
                                        [] c = a2 -> {3}
                                        [] c = b1 -> {1, 4}
                                        [] c = b2 -> {0, 2, 4}]
=============================================================================
