-------------------------- MODULE MCPackageCache --------------------------
\* Two goroutines deploy the same package while it is uploaded twice.
EXTENDS PackageCache

CONSTANTS t1, t2
=============================================================================
