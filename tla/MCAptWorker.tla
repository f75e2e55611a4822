---------------------------- MODULE MCAptWorker ----------------------------
(* Instances of AptWorker: the frontends that the repository ships, and     *)
(* frontends whose declared capabilities are independent of each other.     *)
EXTENDS AptWorker

CONSTANTS f1, f2

\* utils/qapt-batch/qaptbatch.cpp:60
Batch == {"Debconf", "MediumPrompt", "UntrustedPrompt"}
\* utils/qapt-deb-installer/DebInstaller.cpp:58
DebInstaller == {"Debconf"}
\* utils/qapt-gst-helper/PluginHelper.cpp:64
GstHelper == {"MediumPrompt", "UntrustedPrompt"}

ShippedFrontends == {Batch, DebInstaller, GstHelper}

\* Declarations in which no enumerator brings along a capability that was not
\* declared.
ExactFrontends == {{}, {"UntrustedPrompt"}, Capabilities}

\* UpgradeSystem differs from CommitChanges by who makes the marks, only.
DistinctRoles == AllRoles \ {"UpgradeSystem"}

AllOrNothing == {{}, Capabilities}

ASSUME ExactAssumption ==
  \A d \in ExactFrontends, c \in Capabilities :
    (\E e \in d : Bits[c] \cap Bits[e] # {}) => c \in d

OneLock == {1}
=============================================================================
