-------------------------- MODULE MCSessionRegistry --------------------------
EXTENDS SessionRegistry
CONSTANTS k1, k2, d1, d2
\* Two keys of one owner; the first is used on two devices.
MCHelpers == {<<k1, d1>>, <<k1, d2>>, <<k2, d1>>}
=============================================================================
