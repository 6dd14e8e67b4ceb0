------------------------- MODULE MCYamiParameters -------------------------
EXTENDS YamiParameters, MCYamiEntries
=============================================================================
