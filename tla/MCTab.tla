--------------------------------- MODULE MCTab ---------------------------------
EXTENDS TabLive
================================================================================
