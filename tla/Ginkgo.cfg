SPECIFICATION FairSpec
CONSTANTS
  Found <- MCFound
  Configs <- MCConfigs
  NumCompilers = 2
  MaxIterations = 1
  Packages = {"a", "b", "lib", "base"}
  SuitePackages = {"a", "b"}
  Imports <- MCImports
  TestImports <- MCTestImports
  ImportSets = {{}, {"base"}}
  MaxDepth = 2
  MaxEdits = 2
INVARIANT ExitCodeExact
 
PROPERTY CommandEnds
