----------------------------- MODULE MCRecordings -----------------------------
EXTENDS Recordings

MCOrder == <<"user", "client">>
================================================================================
