------------------------------- MODULE MCScm -------------------------------
\* The instances of Scm that TLC checks, in units of eight bytes: three for
\* size_info, two for a header.
EXTENDS Scm
=============================================================================
