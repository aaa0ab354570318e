---------------------------- MODULE MCDebugBench ----------------------------
EXTENDS DebugBench

\* Both edges of TCK, a read, and an end.
MCCommands == {"0", "5", "R", "Q"}
MCTexts == {<<104, 105>>}
MCStopText == <<85>>
=============================================================================
