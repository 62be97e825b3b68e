SPECIFICATION StatementsSpec
CONSTANTS
  Token = {"alice", "bob", "carol", "tiny", "wee"}
  Short = {"tiny", "wee"}
  Founder = {"alice", "bob"}
  Cost <- ThreeRequests
  Shared = {1, 3}
  MaxLines = 1
  MaxFanout = 2
  Holder = {"wee"}
  Mobile = {"carol", "tiny", "wee"}
  MaxLost = 1
INVARIANT StatementIsTheHoldersOwn
