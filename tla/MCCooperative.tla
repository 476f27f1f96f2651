---------------------------- MODULE MCCooperative ----------------------------
EXTENDS Cooperative
=============================================================================
