-------------------------- MODULE MCChannelClients --------------------------
EXTENDS ChannelClients

\* Three senders race two closers on one channel whose buffer holds a
\* single value, so that senders block on a full buffer while holding the
\* read lock and the second Close finds the flag already set.
MCChans   == {"ch1"}
MCSenders == {"s1", "s2", "s3"}
MCClosers == {"k1", "k2"}
MCCap     == 1

=============================================================================
