SPECIFICATION Spec
CONSTANTS
  Null = Null
  Producer = "v"
  Attestors = {"a1", "a2", "a3"}
  StorageNode = "s"
  Schema <- MCSchema
  Proposals <- MCProposals
  VoteOf <- MCVoteOf
  Forms <- MCForms
  PushAddress <- MCPushAddress
  ValPerBlock = 3
  MaxTransactions = 3
  MaxTransactionSize = 12
  MaxTotalSize = 30
  MaxProposals = 2
  MaxReplies = 3
  MaxPublished = 1
  MaxAccepted = 1
  Removable = {"a1"}
INVARIANTS BytesReadBack PatchRecovery AcceptedIsAttested AttestedIsAccepted AcceptedTxsAreOwned
