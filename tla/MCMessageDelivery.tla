-------------------------- MODULE MCMessageDelivery --------------------------
\* One direct chat on one device.
EXTENDS MessageDelivery
=============================================================================
