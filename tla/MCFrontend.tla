------------------------------- MODULE MCFrontend -------------------------------
EXTENDS Frontend
================================================================================
