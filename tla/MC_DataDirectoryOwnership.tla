--------------------- MODULE MC_DataDirectoryOwnership ---------------------
EXTENDS DataDirectoryOwnership, TLC

CONSTANTS d1, d2

\* One database under the canonical name of the directory, another one through
\* a symbolic link to it.
TwoConfigurations == {<<d1, TRUE>>, <<d2, FALSE>>}
=============================================================================
