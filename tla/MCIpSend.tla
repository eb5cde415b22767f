------------------------------ MODULE MCIpSend ------------------------------
EXTENDS IpSend
=============================================================================
