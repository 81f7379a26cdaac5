------------------------------ MODULE MCEthRx ------------------------------
\* Small rings, pools and mailboxes for EthRx; see the .cfg files.
EXTENDS EthRx
=============================================================================
